---- MODULE Spec2Model ----
(***************************************************************************)
(* Command extraction of tabby-command-editor: the cursor probe strategy,  *)
(* the heuristic scan strategy, the Ctrl+A/Ctrl+E extraction service and   *)
(* the tracker service that orchestrates them, over an xterm buffer and a  *)
(* line editor that answers injected key sequences asynchronously.         *)
(*                                                                         *)
(* Text is a sequence of one-character strings.  Rows and columns are      *)
(* 0-based as in the source; row y of the buffer is lines[y + 1].          *)
(***************************************************************************)
EXTENDS Integers, Sequences, FiniteSets, TLC

(***************************************************************************)
(* Characters and JavaScript string primitives                            *)
(***************************************************************************)

\* The line feed that the extractors insert between rows of a command.
NL == "\n"

\* What \s, trim(), trimStart() and trimEnd() treat as white space.
IsSpace(c) == c \in {" ", NL, "\t"}

\* String.prototype.trimEnd
RECURSIVE trimEnd(_)
trimEnd(s) ==
    IF s = <<>> THEN <<>>
    ELSE IF IsSpace(s[Len(s)]) THEN trimEnd(SubSeq(s, 1, Len(s) - 1))
    ELSE s

\* String.prototype.trimStart
RECURSIVE trimStart(_)
trimStart(s) ==
    IF s = <<>> THEN <<>>
    ELSE IF IsSpace(Head(s)) THEN trimStart(Tail(s))
    ELSE s

\* String.prototype.trim
trim(s) == trimStart(trimEnd(s))

Min(a, b) == IF a < b THEN a ELSE b

Max(a, b) == IF a > b THEN a ELSE b

\* String.prototype.substring(start, end): both clamped to [0, length], and
\* swapped when start > end.
substring(s, start, end) ==
    LET a == Max(0, Min(start, Len(s)))
        b == Max(0, Min(end, Len(s)))
    IN  SubSeq(s, Min(a, b) + 1, Max(a, b))

\* String.prototype.substring(start)
substringFrom(s, start) == substring(s, start, Len(s))

\* String.prototype.startsWith
startsWith(s, p) == Len(s) >= Len(p) /\ SubSeq(s, 1, Len(p)) = p

\* String.prototype.endsWith
endsWith(s, p) == Len(s) >= Len(p) /\ SubSeq(s, Len(s) - Len(p) + 1, Len(s)) = p

\* The number of leading white-space characters of s: what \s* consumes.
RECURSIVE spaceRun(_)
spaceRun(s) ==
    IF s = <<>> \/ ~IsSpace(Head(s)) THEN 0 ELSE 1 + spaceRun(Tail(s))

\* Lower-casing of the letters the case-insensitive patterns can meet.
toLower(c) ==
    CASE c = "D" -> "d" [] c = "Q" -> "q" [] c = "U" -> "u" [] c = "O" -> "o"
      [] c = "T" -> "t" [] c = "E" -> "e" [] c = "P" -> "p" [] c = "I" -> "i"
      [] c = "B" -> "b" [] c = "C" -> "c" [] c = "M" -> "m" [] c = "S" -> "s"
      [] c = "H" -> "h" [] c = "R" -> "r"
      [] OTHER -> c

\* startsWith under the /i flag.
startsWithCI(s, p) ==
    /\ Len(s) >= Len(p)
    /\ \A i \in 1..Len(p) : toLower(s[i]) = toLower(p[i])

IsUpper(c) == c \in {"A", "B", "C", "D", "E", "H", "I", "M", "O", "P", "Q",
                     "R", "S", "T", "U", "W"}

IsLower(c) == c \in {"a", "b", "c", "d", "e", "h", "i", "l", "m", "o", "p",
                     "q", "r", "s", "t", "u", "w", "x"}

IsDigit(c) == c \in {"0", "1", "2", "3", "4", "5", "6", "7", "8", "9"}

SetMin(S) == CHOOSE x \in S : \A y \in S : x <= y

SetMax(S) == CHOOSE x \in S : \A y \in S : x >= y

\* s[i] of JavaScript: the character at 0-based index i, or "" (standing for
\* undefined) outside the string.
charAt(s, i) == IF i >= 0 /\ i < Len(s) THEN s[i + 1] ELSE ""

\* The "no value" of a function that returns a column or null.
NoPrompt == 0 - 1

(***************************************************************************)
(* Prompt patterns of the strategies (CursorProbeStrategy,                 *)
(* HeuristicStrategy)                                                      *)
(***************************************************************************)

\* promptChars of HeuristicStrategy.findPromptEnd; the non-ASCII glyphs are
\* written by their code points.
promptChars == {"U276F", "U203A", "U279C", "U27A4", "U27E9", "U00BB",
                "$", "#", "%"}

\* The zsh continuation tags, each followed by ">".
zshTags == { <<"d","q","u","o","t","e",">">>, <<"q","u","o","t","e",">">>,
             <<"p","i","p","e",">">>, <<"c","m","d","s","u","b","s","t",">">>,
             <<"h","e","r","e","d","o","c",">">> }

\* stripContinuationPrompt also knows bquote>.
zshStripTags == zshTags \cup { <<"b","q","u","o","t","e",">">> }

\* HeuristicStrategy.isContinuationLine
isContinuationLine(text) ==
    LET trimmed == trimStart(text)
    IN  \/ (charAt(trimmed, 0) = ">" /\ IsSpace(charAt(trimmed, 1)))
        \/ \E t \in zshTags : startsWithCI(trimmed, t)
        \/ startsWith(trimmed, <<".", ".", ".">>)

\* HeuristicStrategy.looksLikeOutput
RECURSIVE permRun(_)
permRun(s) ==
    IF s = <<>> \/ Head(s) \notin {"r", "w", "x", "d", "-"} THEN 0
    ELSE 1 + permRun(Tail(s))

RECURSIVE digitRun(_)
digitRun(s) ==
    IF s = <<>> \/ ~IsDigit(Head(s)) THEN 0 ELSE 1 + digitRun(Tail(s))

RECURSIVE lowerRun(_)
lowerRun(s) ==
    IF s = <<>> \/ ~IsLower(Head(s)) THEN 0 ELSE 1 + lowerRun(Tail(s))

\* /^\d+\.\d+\.\d+/
isVersionTriple(s) ==
    LET d1 == digitRun(s)
        r1 == substringFrom(s, d1 + 1)
        d2 == digitRun(r1)
        r2 == substringFrom(r1, d2 + 1)
    IN  /\ d1 >= 1 /\ charAt(s, d1) = "."
        /\ d2 >= 1 /\ charAt(r1, d2) = "."
        /\ digitRun(r2) >= 1

\* /^[A-Z][a-z]+:?\s/
isLabel(s) ==
    LET n == lowerRun(substringFrom(s, 1))
        rest == substringFrom(s, 1 + n)
    IN  /\ IsUpper(charAt(s, 0))
        /\ n >= 1
        /\ \/ IsSpace(charAt(rest, 0))
           \/ (charAt(rest, 0) = ":" /\ IsSpace(charAt(rest, 1)))

\* /^-?[rwxd-]{9,}/
isPermissions(s) ==
    \/ permRun(s) >= 9
    \/ (charAt(s, 0) = "-" /\ permRun(substringFrom(s, 1)) >= 9)

looksLikeOutput(text) ==
    \/ startsWith(text, <<"t", "o", "t", "a", "l", " ">>)
    \/ isPermissions(text)
    \/ isVersionTriple(text)
    \/ isLabel(text)

\* The columns the prompt search of findPromptEnd looks at.
PromptSearchLimit == 100

\* HeuristicStrategy.findPromptEnd: the column after the right-most prompt
\* character that is followed by a space, 0 for a row that does not look
\* like output, NoPrompt (null) otherwise.
findPromptEnd(line) ==
    IF isContinuationLine(line) THEN NoPrompt
    ELSE
      LET searchLimit == Min(PromptSearchLimit, Len(line))
          hits == { i \in 0..(searchLimit - 1) :
                      charAt(line, i) \in promptChars /\ charAt(line, i + 1) = " " }
          trimmed == trimStart(line)
          leadingSpaces == Len(line) - Len(trimmed)
      IN  IF hits # {} THEN SetMax(hits) + 2
          ELSE IF Len(trim(line)) > 0 /\ leadingSpaces < 4 /\ ~looksLikeOutput(trimmed)
               THEN 0
          ELSE NoPrompt

\* stripContinuationPrompt of both strategies: the patterns in order; the
\* second one (>>) can never be the first to match.
stripContinuationPrompt(text) ==
    IF charAt(text, 0) = ">"
      THEN substringFrom(text, 1 + spaceRun(substringFrom(text, 1)))
    ELSE IF startsWith(text, <<".", ".", ".">>)
      THEN substringFrom(text, 3 + spaceRun(substringFrom(text, 3)))
    ELSE IF \E t \in zshStripTags : startsWithCI(text, t)
      THEN LET t == CHOOSE t \in zshStripTags : startsWithCI(text, t)
           IN  substringFrom(text, Len(t) + spaceRun(substringFrom(text, Len(t))))
    ELSE text

(***************************************************************************)
(* Prompt patterns of CommandExtractionService                             *)
(***************************************************************************)

\* The character classes of promptPatterns.
servicePromptChars == promptChars \cup {">"}

serviceThemeChars == {"U03BB", "U2234", "U2299", "U27E1", "U276E", "U276D"}

\* /^.*?[class]\s+/ : the length of the match at the first character of the
\* class that is followed by white space, or NoPrompt.
lazyPromptMatch(line, class) ==
    LET hits == { i \in 0..(Len(line) - 1) :
                    charAt(line, i) \in class /\ IsSpace(charAt(line, i + 1)) }
    IN  IF hits = {} THEN NoPrompt
        ELSE LET i == SetMin(hits)
             IN  i + 1 + spaceRun(substringFrom(line, i + 1))

\* CommandExtractionService.findPromptEnd
serviceFindPromptEnd(line) ==
    IF lazyPromptMatch(line, servicePromptChars) # NoPrompt
      THEN lazyPromptMatch(line, servicePromptChars)
    ELSE lazyPromptMatch(line, serviceThemeChars)

(***************************************************************************)
(* The buffer: IBuffer.getLine and IBufferLine.translateToString           *)
(***************************************************************************)

\* A row is [text, isWrapped]: text holds the written cells of the row, so
\* its trimmed length (getTrimmedLength) is Len(text).
hasLine(buf, y) == y >= 0 /\ y < Len(buf)

getLine(buf, y) == buf[y + 1]

\* An endColumn argument that is left undefined.
NoColumn == 0 - 1

\* IBufferLine.translateToString(true, startColumn, endColumn): the cells
\* from startColumn up to endColumn, the end cut back to the trimmed length.
translateToString(line, startColumn, endColumn) ==
    LET endCol == IF endColumn = NoColumn THEN Len(line.text)
                  ELSE Min(endColumn, Len(line.text))
    IN  IF startColumn < endCol THEN SubSeq(line.text, startColumn + 1, endCol)
        ELSE <<>>

\* CommandExtractionService.getLineText
getLineText(buf, lineY) ==
    IF hasLine(buf, lineY) THEN translateToString(getLine(buf, lineY), 0, NoColumn)
    ELSE <<>>

Pos(x, y) == [x |-> x, y |-> y]

\* The "before" order of positions: by row, then by column.
posLess(a, b) == a.y < b.y \/ (a.y = b.y /\ a.x < b.x)

\* null of a function that returns a position.
NoPos == [none |-> TRUE]

\* null of a function that returns boundaries.
NoBoundaries == [none |-> TRUE]

\* null of a function that returns an ExtractionResult.
NoResult == [found |-> FALSE]

Result(command, isMultiLine, startLine, endLine, confidence) ==
    [found |-> TRUE, command |-> command, isMultiLine |-> isMultiLine,
     startLine |-> startLine, endLine |-> endLine, confidence |-> confidence]

(***************************************************************************)
(* Joining the rows of a region (both strategies)                          *)
(***************************************************************************)

\* The segment that row y adds to the command in the loops of
\* CursorProbeStrategy.extractFromBoundaries and HeuristicStrategy.extractRegion.
rowSegment(buf, y, startY, startX, endY, endX) ==
    IF ~hasLine(buf, y) THEN <<>>
    ELSE
      LET line == getLine(buf, y)
          text == translateToString(line,
                                    IF y = startY THEN startX ELSE 0,
                                    IF y = endY THEN endX ELSE NoColumn)
      IN  IF y > startY
            THEN IF line.isWrapped THEN text
                 ELSE <<NL>> \o stripContinuationPrompt(text)
          ELSE text

\* segments.join('') over the rows y..endY.
RECURSIVE joinSegments(_, _, _, _, _, _)
joinSegments(buf, y, startY, startX, endY, endX) ==
    IF y > endY THEN <<>>
    ELSE rowSegment(buf, y, startY, startX, endY, endX)
         \o joinSegments(buf, y + 1, startY, startX, endY, endX)

\* isMultiLine of both loops: some row after the first is not wrapped.
regionIsMultiLine(buf, startY, endY) ==
    \E y \in (startY + 1)..endY : hasLine(buf, y) /\ ~getLine(buf, y).isWrapped

\* The validation of the probed boundaries left out.
boundariesAlwaysValid(b) == TRUE

\* CursorProbeStrategy.isValidBoundaries
isValidBoundaries(b) ==
    IF b.start.y > b.end.y THEN FALSE
    ELSE IF b.start.y = b.end.y /\ b.start.x >= b.end.x THEN FALSE
    ELSE TRUE

\* CursorProbeStrategy.extractFromBoundaries: always a result, of confidence
\* high, also when the trimmed command is empty.
probeExtractFromBoundaries(buf, b) ==
    Result(trim(joinSegments(buf, b.start.y, b.start.y, b.start.x, b.end.y, b.end.x)),
           regionIsMultiLine(buf, b.start.y, b.end.y),
           b.start.y, b.end.y, "high")

\* HeuristicStrategy.extractRegion: null for an empty command, else a result
\* of confidence medium.
extractRegion(buf, startY, startX, endY, endX) ==
    LET command == trim(joinSegments(buf, startY, startY, startX, endY, endX))
    IN  IF command = <<>> THEN NoResult
        ELSE Result(command, regionIsMultiLine(buf, startY, endY),
                    startY, endY, "medium")

(***************************************************************************)
(* HeuristicStrategy                                                       *)
(***************************************************************************)

MAX_SCAN_LINES == 50

\* The backward loop of HeuristicStrategy.extractByScan from row y: the
\* start position it leaves in (startY, startX).
RECURSIVE scanStart(_, _, _)
scanStart(buf, cursorPos, y) ==
    IF y < Max(0, cursorPos.y - MAX_SCAN_LINES) THEN Pos(0, cursorPos.y)
    ELSE IF ~hasLine(buf, y) THEN Pos(0, cursorPos.y)
    ELSE IF getLine(buf, y).isWrapped /\ y > 0 THEN scanStart(buf, cursorPos, y - 1)
    ELSE
      LET text == translateToString(getLine(buf, y), 0, NoColumn)
      IN  IF findPromptEnd(text) # NoPrompt THEN Pos(findPromptEnd(text), y)
          ELSE IF isContinuationLine(text) THEN scanStart(buf, cursorPos, y - 1)
          ELSE IF y < cursorPos.y THEN Pos(0, y + 1)
          ELSE scanStart(buf, cursorPos, y - 1)

\* HeuristicStrategy.extractByScan
extractByScan(buf, cursorPos) ==
    LET start == scanStart(buf, cursorPos, cursorPos.y)
    IN  extractRegion(buf, start.y, start.x, cursorPos.y, cursorPos.x)

(***************************************************************************)
(* CommandExtractionService: line scan, expansion and extraction           *)
(***************************************************************************)

Boundaries(start, end) == [start |-> start, end |-> end]

\* The "last resort" loop of fallbackLineScan: the right-most prompt character
\* (now with ">") followed by a space or by the end of the row, whose start
\* column is before the cursor.
lastResortStarts(lineText, cursorPos) ==
    { i \in 0..(Len(lineText) - 1) :
        /\ charAt(lineText, i) \in servicePromptChars
        /\ charAt(lineText, i + 1) \in {" ", ""}
        /\ i + (IF charAt(lineText, i + 1) = " " THEN 2 ELSE 1) < cursorPos.x }

\* CommandExtractionService.fallbackLineScan
fallbackLineScan(buf, cursorPos) ==
    LET lineText == getLineText(buf, cursorPos.y)
        promptEnd == serviceFindPromptEnd(lineText)
        lineEnd == Pos(Len(trimEnd(lineText)), cursorPos.y)
        hits == lastResortStarts(lineText, cursorPos)
    IN  IF promptEnd # NoPrompt /\ promptEnd < cursorPos.x
          THEN Boundaries(Pos(promptEnd, cursorPos.y), lineEnd)
        ELSE IF hits # {}
          THEN LET i == SetMax(hits)
               IN  Boundaries(Pos(i + (IF charAt(lineText, i + 1) = " " THEN 2 ELSE 1),
                                  cursorPos.y),
                              lineEnd)
        ELSE NoBoundaries

\* The loop of expandForMultiLine at row y, with the start found so far.
RECURSIVE expandFrom(_, _, _, _)
expandFrom(buf, boundaries, y, start) ==
    IF y < Max(0, boundaries.start.y - MAX_SCAN_LINES) THEN start
    ELSE
      LET lineText == getLineText(buf, y)
      IN  IF endsWith(trimEnd(lineText), <<"\\">>)
            THEN expandFrom(buf, boundaries, y - 1,
                            IF serviceFindPromptEnd(lineText) # NoPrompt
                              THEN Pos(serviceFindPromptEnd(lineText), y)
                            ELSE Pos(0, y))
          ELSE start

\* The boundary as probed, with no expansion.
noExpansion(buf, boundaries) == boundaries

\* CommandExtractionService.expandForMultiLine
expandForMultiLine(buf, boundaries) ==
    Boundaries(expandFrom(buf, boundaries, boundaries.start.y - 1, boundaries.start),
               boundaries.end)

\* What row y adds to commandLines in extractFromBoundaries: a one-element
\* sequence, or none when the row's content is empty (the single-row case
\* pushes its substring always).
serviceRowContent(buf, b, y) ==
    LET lineText == getLineText(buf, y)
        stripped == stripContinuationPrompt(lineText)
        offset == Len(lineText) - Len(stripped)
        adjustedEndX == Max(0, b.end.x - offset)
        content ==
          IF y = b.start.y /\ y = b.end.y THEN substring(lineText, b.start.x, b.end.x)
          ELSE IF y = b.start.y THEN trimEnd(substringFrom(lineText, b.start.x))
          ELSE IF y = b.end.y THEN trimEnd(substring(stripped, 0, adjustedEndX))
          ELSE trimEnd(stripped)
    IN  IF (y = b.start.y /\ y = b.end.y) \/ content # <<>> THEN << content >>
        ELSE <<>>

\* commandLines of extractFromBoundaries over the rows y..end.y.
RECURSIVE commandLines(_, _, _)
commandLines(buf, b, y) ==
    IF y > b.end.y THEN <<>>
    ELSE serviceRowContent(buf, b, y) \o commandLines(buf, b, y + 1)

\* The join loop of extractFromBoundaries: both of its branches put one line
\* feed between two lines.
RECURSIVE joinLines(_)
joinLines(ls) ==
    IF ls = <<>> THEN <<>>
    ELSE IF Len(ls) = 1 THEN ls[1]
    ELSE ls[1] \o <<NL>> \o joinLines(Tail(ls))

\* CommandExtractionService.extractFromBoundaries; its result has no
\* confidence field.
serviceExtractFromBoundaries(buf, b) ==
    LET ls == commandLines(buf, b, b.start.y)
        command == trim(joinLines(ls))
    IN  IF command = <<>> THEN NoResult
        ELSE Result(command, Len(ls) > 1, b.start.y, b.end.y, "none")

\* The validation of CommandExtractionService.extractCommand between
\* expansion and extraction.
serviceBoundariesEmpty(b) ==
    \/ b.start.y > b.end.y
    \/ (b.start.y = b.end.y /\ b.start.x >= b.end.x)

(***************************************************************************)
(* State                                                                   *)
(***************************************************************************)

VARIABLES
    lines,          \* the rows of the active buffer
    bufType,        \* buffer.type: "normal" or "alternate"
    cursor,         \* the cursor: x = cursorX, y = baseY + cursorY
    env,            \* the world outside the plugin: the line editor's region
                    \* and key bindings, its latency, the plugin build in use
    inputQueue,     \* keys handed to sendInput that the line editor has not
                    \* yet acted on
    sent,           \* every key handed to sendInput, in order, with its call
    tabInput,       \* what was handed to the sendInput of the other tabs, whose
                    \* terminals are not modelled, by terminal id
    markers,        \* xterm's markers by id: [line, isDisposed]
    regions,        \* the PromptRegion that owns marker id: [commandStartX]
    prompts,        \* PromptMarkerService.prompts, by terminal id
    currentPrompt,  \* PromptMarkerService.currentPrompt, by terminal id
    promptPositions,\* PowerExtractionService.promptPositions, by terminal id
    pendingChecks,  \* PromptMarkerService.pendingChecks: a timer is set
    attached,       \* the handles attach returned, by terminal id:
                    \* listening[h] while the listeners of handle h are
                    \* registered, entry the handle that is in the registry
                    \* (TerminalTrackerService.attachments), 0 for none
    captureTimers,  \* the setTimeout callbacks of PowerExtractionService that
                    \* have not run yet, by terminal id and by who set them
    calls           \* the extractCommand calls

vars == << lines, bufType, cursor, env, tabInput, inputQueue, sent, markers, regions,
           prompts, currentPrompt, promptPositions, pendingChecks, attached,
           captureTimers, calls >>

\* Terminal ids handed to attach / extractCommand.
Terminals == {"t1", "t2"}

\* The terminal the modelled tab belongs to.
Tab == "t1"

\* The extractCommand calls of a run, in the order they are made.
Calls == {1, 2}

\* currentPrompt.get(id) of an id that has no entry.
NoMarker == 0

\* promptPositions.get(id) of an id that has no entry.
NoPromptPosition == [none |-> TRUE]

\* An id that attach was never called for, and an id after its first attach.
NeverAttached == [entry |-> 0, listening |-> <<>>]

FirstAttachment == [entry |-> 1, listening |-> << TRUE >>]

\* TerminalTrackerService.isAttached
isAttached(terminalId) == attached[terminalId].entry # 0

\* Some handle of the id has its listeners registered with the terminal.
listening(terminalId) ==
    \E h \in DOMAIN attached[terminalId].listening : attached[terminalId].listening[h]

\* Every handle the id was given has been disposed.
detached(terminalId) ==
    attached[terminalId].listening # <<>> /\ ~listening(terminalId)

\* The handles of an id once dispose() of handle h has run: its listeners are
\* removed, and the registry entry of the id is deleted.
handleDisposed(a, h) ==
    [entry |-> 0, listening |-> [a.listening EXCEPT ![h] = FALSE]]

(***************************************************************************)
(* Key sequences                                                           *)
(***************************************************************************)

\* The start methods with the readline key first.
readlineFirst == << "^A", "ESC[H", "ESC[1~", "ESCOH" >>

\* methods of CursorProbeStrategy.probeStart, in order.
startMethods == << "ESC[H", "^A", "ESC[1~", "ESCOH" >>

\* methods of CursorProbeStrategy.restoreCursor, in order.
restoreMethods == << "ESC[F", "^E", "ESC[4~", "ESCOF" >>

StartKeys == { startMethods[i] : i \in 1..Len(startMethods) }

EndKeys == { restoreMethods[i] : i \in 1..Len(restoreMethods) }

\* Probe constants of CursorProbeStrategy and CommandExtractionService.
STABLE_READINGS == 3

PROBE_TIMEOUT == 500

\* CHECK_INTERVAL of CursorProbeStrategy.
CHECK_INTERVAL == 20

\* CHECK_INTERVAL of CommandExtractionService.
serviceCHECK_INTERVAL == 25

(***************************************************************************)
(* The terminals a run starts from                                         *)
(***************************************************************************)

\* The longest command text of the text scenarios.
MaxCmdLen == 3

\* How many times a run may register a marker.
MaxMarkers == 2

Row(text, isWrapped) == [text |-> text, isWrapped |-> isWrapped]

\* A main prompt that ends in a glyph and one space, and the same behind a
\* user name.
PS1 == << "$", " " >>

UserPS1 == << "u", "$", " " >>

\* bash's continuation prompt.
PS2 == << ">", " " >>

\* The line-continuation marker that ends a row of a continued command.
Continued == << " ", "\\" >>

CmdChars == {"a", "$", " "}

\* Command texts up to n characters: not empty, no white space at either end.
CmdsUpTo(n) ==
    { c \in UNION { [1..k -> CmdChars] : k \in 1..n } :
        ~IsSpace(c[1]) /\ ~IsSpace(c[Len(c)]) }

\* A terminal at a prompt: the rows, the region [start, end] that the line
\* editor lets the cursor move in, the prompt and the text typed so far.
Scenario(shape, rows, start, end, prompt, cmd) ==
    [shape |-> shape, lines |-> rows, start |-> start, end |-> end,
     prompt |-> prompt, cmd |-> cmd]

\* One row: prompt and command.
Single(p, c) ==
    Scenario("single", << Row(p \o c, FALSE) >>,
             Pos(Len(p), 0), Pos(Len(p) + Len(c), 0), p, c)

\* A command that the terminal wrapped onto a second row.
Wrapped(p, c1, c2) ==
    Scenario("wrapped", << Row(p \o c1, FALSE), Row(c2, TRUE) >>,
             Pos(Len(p), 0), Pos(Len(c2), 1), p, c1 \o c2)

\* A command continued with a trailing backslash; the line editor (readline)
\* edits the last row only.
ContinuedOnce(p, c1, c2) ==
    Scenario("continued",
             << Row(p \o c1 \o Continued, FALSE), Row(PS2 \o c2, FALSE) >>,
             Pos(Len(PS2), 1), Pos(Len(PS2) + Len(c2), 1), p,
             c1 \o Continued \o <<NL>> \o c2)

ContinuedTwice(p, c1, c2, c3) ==
    Scenario("continued",
             << Row(p \o c1 \o Continued, FALSE),
                Row(PS2 \o c2 \o Continued, FALSE),
                Row(PS2 \o c3, FALSE) >>,
             Pos(Len(PS2), 2), Pos(Len(PS2) + Len(c3), 2), p,
             c1 \o Continued \o <<NL>> \o c2 \o Continued \o <<NL>> \o c3)

\* The same terminal with one row of earlier output above it.
Shift(pos) == Pos(pos.x, pos.y + 1)

Below(out, sc) ==
    [sc EXCEPT !.lines = << Row(out, FALSE) >> \o sc.lines,
               !.start = Shift(sc.start), !.end = Shift(sc.end)]

Segments == { << "a" >>, << "a", "b" >> }

\* The terminals of the timing specification: few texts, every shape.
ProcessScenarios ==
    { Single(PS1, << "a", "b" >>),
      Single(PS1, <<>>),
      Wrapped(PS1, << "a", "b" >>, << "c", "d" >>),
      ContinuedOnce(PS1, << "a" >>, << "b" >>),
      Below(<< "o" >>, Single(PS1, << "a", "b" >>)) }

\* The terminals of the text specification: every command text up to
\* MaxCmdLen behind each prompt, and every shape over the segments.
TextScenarios ==
    { Single(PS1, c) : c \in CmdsUpTo(MaxCmdLen) \cup {<<>>} }
    \cup { Single(p, c) : p \in {UserPS1, <<>>}, c \in Segments \cup {<<>>} }
    \cup { Wrapped(PS1, c1, c2) : c1 \in Segments, c2 \in Segments }
    \cup { ContinuedOnce(p, c1, c2) : p \in {PS1, <<>>}, c1 \in Segments, c2 \in Segments }
    \cup { ContinuedTwice(PS1, << "a" >>, c2, << "b" >>) : c2 \in Segments }
    \cup { Below(<< "E", "r", " ", "x" >>, Single(PS1, c)) : c \in Segments }

\* The columns of row y the cursor can be at inside the editor's region.
RegionColumns(sc, y) ==
    (IF y = sc.start.y THEN sc.start.x ELSE 0)
      .. (IF y = sc.end.y THEN sc.end.x ELSE Len(sc.lines[y + 1].text) - 1)

RegionPositions(sc) ==
    UNION { { Pos(x, y) : x \in RegionColumns(sc, y) } : y \in sc.start.y .. sc.end.y }

\* The plugin builds: the tracker service (probe, then heuristic), the probe
\* strategy called with the live buffer, the Ctrl+A/Ctrl+E service and the
\* buffer-only service.
Extractors == {"tracker", "probe", "service", "power"}

\* The orchestrating services, which test for the alternate screen.
Services == {"tracker", "service", "power"}

\* Which of the probe's keys the line editor is bound to act on.
Bindings == { StartKeys \cup EndKeys, {"^A", "^E"}, {} }

\* CommandEditorConfigProvider.defaults.commandEditor
defaults == [executeImmediately |-> TRUE]

(***************************************************************************)
(* PromptMarkerService                                                     *)
(***************************************************************************)

MAX_PROMPTS == 100

\* PromptMarkerService.getCurrentPrompt: the id of the region's marker, or
\* NoMarker (null).
getCurrentPrompt(terminalId) ==
    LET prompt == currentPrompt[terminalId]
    IN  IF prompt # NoMarker /\ ~markers[prompt].isDisposed THEN prompt
        ELSE NoMarker

\* marker.dispose() for every marker of ids.
disposeAll(ms, ids) ==
    [ m \in DOMAIN ms |->
        IF m \in ids THEN [line |-> 0 - 1, isDisposed |-> TRUE] ELSE ms[m] ]

\* A list that never holds a live entry of the row.
noneOnRow(list, line) == {}

\* The test of addPrompt's prompts.find: the places of list whose marker is
\* not disposed and is on the row.
existingOnRow(list, line) ==
    { i \in 1..Len(list) :
        ~markers[list[i]].isDisposed /\ markers[list[i]].line = line }

\* A list of any length left as it is.
neverOverCapacity(length) == 0

\* How many times the loop "while (prompts.length > MAX_PROMPTS)" of addPrompt
\* shifts a list of the given length.
overCapacity(length) == Max(0, length - MAX_PROMPTS)

\* A PromptRegion without its marker; Date.now() is the number of the
\* registration, which grows with every mark.
Region(commandStartX, timestamp) ==
    [commandStartX |-> commandStartX, timestamp |-> timestamp]

\* The tracker after PromptMarkerService.markPromptAt(terminalId, terminal,
\* commandStartX) on a terminal whose active buffer is of the given type and
\* whose cursor is on the given row: terminal.registerMarker(0) puts a new
\* marker on the cursor row (none in the alternate buffer), and addPrompt either updates the live
\* entry of that row and disposes the new marker, or appends the new region,
\* evicts beyond MAX_PROMPTS from the front and makes it the current prompt.
markPromptOn(terminalId, type, line, commandStartX) ==
    LET id == Len(markers) + 1
        registered == Append(markers, [line |-> line, isDisposed |-> FALSE])
        list == prompts[terminalId]
        same == existingOnRow(list, line)
        existing == list[SetMin(same)]
        pushed == Append(list, id)
        excess == overCapacity(Len(pushed))
        evicted == { pushed[i] : i \in 1..excess }
    IN  IF type = "alternate"
          THEN [markers |-> markers, regions |-> regions, prompts |-> prompts,
                currentPrompt |-> currentPrompt]
        ELSE IF same # {}
          THEN [markers |-> disposeAll(registered, {id}),
                regions |-> Append([regions EXCEPT ![existing] =
                                      Region(commandStartX, id)],
                                   Region(commandStartX, id)),
                prompts |-> prompts,
                currentPrompt |-> currentPrompt]
        ELSE [markers |-> disposeAll(registered, evicted),
              regions |-> Append(regions, Region(commandStartX, id)),
              prompts |-> [prompts EXCEPT ![terminalId] =
                             SubSeq(pushed, excess + 1, Len(pushed))],
              currentPrompt |-> [currentPrompt EXCEPT ![terminalId] = id]]

\* markPromptAt for the terminal of the modelled tab.
markPromptAt(terminalId, commandStartX) ==
    markPromptOn(terminalId, bufType, cursor.y, commandStartX)

(***************************************************************************)
(* HeuristicStrategy.extract                                               *)
(***************************************************************************)

\* The early return for a cursor at column 0 on an empty row.
heuristicNothingAtCursor(buf, cursorPosition) ==
    /\ cursorPosition.x = 0
    /\ \/ ~hasLine(buf, cursorPosition.y)
       \/ trim(translateToString(getLine(buf, cursorPosition.y), 0, NoColumn)) = <<>>

\* Whether the marker of the context's prompt seeds the extraction.
heuristicUsesMarker(cursorPosition, prompt) ==
    /\ prompt # NoMarker
    /\ ~markers[prompt].isDisposed
    /\ markers[prompt].line <= cursorPosition.y

\* The start position the heuristic extracts from.
heuristicStart(buf, cursorPosition, prompt) ==
    IF heuristicUsesMarker(cursorPosition, prompt)
      THEN Pos(regions[prompt].commandStartX, markers[prompt].line)
    ELSE scanStart(buf, cursorPosition, cursorPosition.y)

\* HeuristicStrategy.extract
heuristicExtract(buf, cursorPosition, prompt) ==
    IF heuristicNothingAtCursor(buf, cursorPosition) THEN NoResult
    ELSE LET start == heuristicStart(buf, cursorPosition, prompt)
         IN  extractRegion(buf, start.y, start.x, cursorPosition.y, cursorPosition.x)

\* The boundary behind heuristicExtract's answer.
heuristicBoundaries(buf, cursorPosition, prompt) ==
    IF heuristicNothingAtCursor(buf, cursorPosition) THEN NoBoundaries
    ELSE Boundaries(heuristicStart(buf, cursorPosition, prompt), cursorPosition)

(***************************************************************************)
(* PowerExtractionService                                                  *)
(***************************************************************************)

\* PowerExtractionService.findPromptEnd: behind the last prompt character of
\* the row and the spaces after it; 0 when the row has none.
powerFindPromptEnd(text) ==
    LET at == { i \in 0..(Len(text) - 1) : charAt(text, i) \in servicePromptChars }
        afterChar == SetMax(at) + 1
        spaces == { n \in 0..Len(text) :
                      \A k \in 0..(n - 1) : charAt(text, afterChar + k) = " " }
    IN  IF at = {} THEN 0 ELSE afterChar + SetMax(spaces)

\* PowerExtractionService.extractWithHeuristic
extractWithHeuristic(buf, cursorY, cursorX) ==
    IF ~hasLine(buf, cursorY) THEN NoResult
    ELSE
      LET fullText == translateToString(getLine(buf, cursorY), 0, NoColumn)
          promptEndX == powerFindPromptEnd(fullText)
          command == trim(substring(fullText, promptEndX, cursorX))
      IN  IF promptEndX >= cursorX \/ command = <<>> THEN NoResult
          ELSE Result(command, FALSE, cursorY, cursorY, "medium")

\* The segment of row y in the loop of extractFromPrompt: as the strategies',
\* but the continuation prompt stays.
powerSegment(buf, y, startY, startX, endY, endX) ==
    IF ~hasLine(buf, y) THEN <<>>
    ELSE
      LET line == getLine(buf, y)
          text == translateToString(line,
                                    IF y = startY THEN startX ELSE 0,
                                    IF y = endY THEN endX ELSE NoColumn)
      IN  IF y > startY /\ ~line.isWrapped THEN <<NL>> \o text ELSE text

RECURSIVE powerJoin(_, _, _, _, _, _)
powerJoin(buf, y, startY, startX, endY, endX) ==
    IF y > endY THEN <<>>
    ELSE powerSegment(buf, y, startY, startX, endY, endX)
         \o powerJoin(buf, y + 1, startY, startX, endY, endX)

\* PowerExtractionService.extractFromPrompt
extractFromPrompt(buf, promptPos, cursorY, cursorX) ==
    LET command == trim(powerJoin(buf, promptPos.line, promptPos.line, promptPos.x,
                                  cursorY, cursorX))
    IN  IF promptPos.line > cursorY
           \/ (promptPos.line = cursorY /\ promptPos.x > cursorX)
           \/ command = <<>>
          THEN NoResult
        ELSE Result(command, regionIsMultiLine(buf, promptPos.line, cursorY),
                    promptPos.line, cursorY, "high")

\* The body of PowerExtractionService.extractCommand after the alternate
\* screen test.
powerExtract(buf, promptPos, cursorPos) ==
    IF promptPos # NoPromptPosition
      THEN extractFromPrompt(buf, promptPos, cursorPos.y, cursorPos.x)
    ELSE extractWithHeuristic(buf, cursorPos.y, cursorPos.x)

\* The boundary behind powerExtract's answer.
powerBoundaries(buf, promptPos, cursorPos) ==
    IF promptPos # NoPromptPosition
      THEN Boundaries(Pos(promptPos.x, promptPos.line), cursorPos)
    ELSE IF ~hasLine(buf, cursorPos.y) THEN NoBoundaries
    ELSE Boundaries(Pos(powerFindPromptEnd(getLineText(buf, cursorPos.y)), cursorPos.y),
                    cursorPos)

(***************************************************************************)
(* The extractCommand calls                                                *)
(***************************************************************************)

NoContext == [none |-> TRUE]

NoAttempt == [none |-> TRUE]

NoSnapshot == [none |-> TRUE]

\* A call that has not been made yet.
IdleCall ==
    [ pc |-> "idle",            \* "idle", "sampling" (awaiting a probe), "done"
      phase |-> "none",         \* which await the call is suspended in
      method |-> 0,             \* index of the key sequence being tried
      context |-> NoContext,    \* the ExtractionContext / the locals of the call
      originalPos |-> NoPos,
      startPos |-> NoPos,
      attempt |-> NoAttempt,    \* the closure of tryCursorMove / probeCursorMove
      result |-> NoResult,      \* the value the promise resolved to
      bounds |-> NoBoundaries,  \* the boundary the result was cut from
      ran |-> <<>>,             \* the strategies that ran, with their outcome
      pre |-> NoSnapshot,       \* the session as the call found it
      movedByStart |-> FALSE,   \* a start key of this call moved the cursor
      editor |-> "none",        \* openCommandEditor behind the call: "none",
                                \* "nothing" (notified), "open", "saved",
                                \* "cancelled"
      inserted |-> <<>>,        \* the data insertCommand handed to sendInput
      lateChecks |-> 0 ]        \* checkCursor callbacks of resolved attempts
                                \* that are still scheduled

\* The session a call finds.
Snapshot ==
    [ type |-> bufType, cursor |-> cursor, markers |-> markers, regions |-> regions,
      prompts |-> prompts, currentPrompt |-> currentPrompt,
      promptPositions |-> promptPositions, attached |-> attached[Tab] ]

\* What a step of a call does besides changing the call: the keys it hands to
\* sendInput, and whether it marks the prompt (with which commandStartX).
Step(call, keys, mark, markX) ==
    [call |-> call, keys |-> keys, mark |-> mark, markX |-> markX]

Finished(call, result, bounds, ran) ==
    [call EXCEPT !.pc = "done", !.phase = "none", !.attempt = NoAttempt,
                 !.result = result,
                 !.bounds = bounds,
                 !.ran = ran]

\* CursorProbeStrategy.getCursorPosition / CommandExtractionService.
\* getCursorPosition on the buffer object the call was given: the terminal's
\* live buffer, or the copy of its fields TerminalTrackerService made.
getCursorPosition(call) ==
    IF call.context.live THEN cursor ELSE call.context.buffer

\* The key of try number method in a phase.
keyOf(phase, method) ==
    CASE phase = "start"    -> startMethods[method]
      [] phase = "restore"  -> restoreMethods[method]
      [] phase = "svcStart" -> "^A"
      [] phase = "svcEnd"   -> "^E"

\* The synchronous part of tryCursorMove / probeCursorMove: fresh closure
\* variables, the key is sent, the first check is scheduled.
beginAttempt(call, phase, method) ==
    Step([call EXCEPT !.pc = "sampling", !.phase = phase, !.method = method,
                      !.attempt = [stableCount |-> 0, lastPos |-> NoPos, checks |-> 0]],
         <<keyOf(phase, method)>>, FALSE, 0)

\* How many times checkCursor runs before the timeout of the attempt: the
\* checks run CHECK_INTERVAL apart from the send on, and the timeout, set
\* before the first of them, runs PROBE_TIMEOUT after the send.
checksBeforeTimeout(call) ==
    IF call.context.caller = "service"
      THEN (PROBE_TIMEOUT - 1) \div serviceCHECK_INTERVAL
    ELSE (PROBE_TIMEOUT - 1) \div CHECK_INTERVAL

\* An attempt whose timeout never comes.
neverTimedOut(call) == FALSE

\* PROBE_TIMEOUT has passed since the attempt sent its key.
timedOut(call) == call.attempt.checks >= checksBeforeTimeout(call)

\* currentPos of the running tryCursorMove / probeCursorMove.
attemptFrom(call) ==
    IF call.phase = "svcEnd" THEN call.startPos ELSE call.originalPos

\* The tracker returning whatever the probe answered, with no fallback.
trackerWithoutFallback(call, probeResult, probeBounds) ==
    Step(Finished(call, probeResult, probeBounds,
                  <<IF probeResult = NoResult THEN "probe:none" ELSE "probe:found">>),
         <<>>, FALSE, 0)

\* A heuristic whose answer comes with a mark of the prompt.
heuristicMarks(call, result, bounds) ==
    Step(Finished(call, result, bounds, <<"probe:none", "heuristic:found">>),
         <<>>, TRUE, 0)

\* HeuristicStrategy.extract has returned to the tracker, which returns its
\* answer: nothing was handed to sendInput and no prompt is marked.
heuristicReturns(call, result, bounds) ==
    Step(Finished(call, result, bounds,
                  <<"probe:none",
                    IF result = NoResult THEN "heuristic:none" ELSE "heuristic:found">>),
         <<>>, FALSE, 0)

\* TerminalTrackerService.extractCommand once the probe has answered.
trackerAfterProbe(call, probeResult, probeBounds) ==
    IF probeResult # NoResult
      THEN Step(Finished(call, probeResult, probeBounds, <<"probe:found">>), <<>>,
                probeResult.startLine = call.context.cursorPosition.y,
                IF call.context.currentPrompt # NoMarker
                  THEN regions[call.context.currentPrompt].commandStartX
                ELSE 0)
    ELSE LET cp == call.context.cursorPosition
             prompt == call.context.currentPrompt
             result == heuristicExtract(lines, cp, prompt)
         IN  heuristicReturns(call, result, heuristicBoundaries(lines, cp, prompt))

\* CursorProbeStrategy.extract has returned its result to its caller.
probeReturns(call, probeResult, probeBounds) ==
    IF call.context.caller = "tracker"
      THEN trackerAfterProbe(call, probeResult, probeBounds)
    ELSE Step(Finished(call, probeResult, probeBounds,
                       <<IF probeResult = NoResult THEN "probe:none"
                         ELSE "probe:found">>),
              <<>>, FALSE, 0)

\* CursorProbeStrategy.extract after restoreCursor.
probeAfterRestore(call) ==
    LET boundaries == Boundaries(call.startPos, call.originalPos)
    IN  IF isValidBoundaries(boundaries)
          THEN probeReturns(call, probeExtractFromBoundaries(lines, boundaries),
                            boundaries)
        ELSE probeReturns(call, NoResult, boundaries)

\* CursorProbeStrategy.extract from its first line.
probeExtract(call) ==
    LET started == [call EXCEPT !.originalPos = call.context.cursorPosition]
    IN  IF started.originalPos.x = 0
          THEN probeReturns(started, NoResult, NoBoundaries)
        ELSE beginAttempt(started, "start", 1)

\* CommandExtractionService.extractCommand once probeCommandBoundaries has
\* answered.
serviceAfterProbe(call, boundaries) ==
    IF boundaries = NoBoundaries
      THEN Step(Finished(call, NoResult, NoBoundaries, <<"service:none">>),
                <<>>, FALSE, 0)
    ELSE LET expanded == expandForMultiLine(lines, boundaries)
         IN  IF serviceBoundariesEmpty(expanded)
               THEN Step(Finished(call, NoResult, expanded, <<"service:none">>),
                         <<>>, FALSE, 0)
             ELSE Step(Finished(call, serviceExtractFromBoundaries(lines, expanded),
                                expanded, <<"service:found">>),
                       <<>>, FALSE, 0)

\* The code that runs when the promise of tryCursorMove / probeCursorMove
\* resolves with value (NoPos for null), up to the next await or the return.
afterAttempt(call, value) ==
    CASE call.phase = "start" ->
           IF value # NoPos
             THEN beginAttempt([call EXCEPT !.startPos = value], "restore", 1)
           ELSE IF call.method < Len(startMethods)
             THEN beginAttempt(call, "start", call.method + 1)
           ELSE probeReturns(call, NoResult, NoBoundaries)
      [] call.phase = "restore" ->
           LET after == getCursorPosition(call)
           IN  IF \/ (after.x >= call.originalPos.x /\ after.y = call.originalPos.y)
                  \/ call.method = Len(restoreMethods)
                 THEN probeAfterRestore(call)
               ELSE beginAttempt(call, "restore", call.method + 1)
      [] call.phase = "svcStart" ->
           IF value = NoPos
             THEN serviceAfterProbe(call, fallbackLineScan(lines, call.originalPos))
           ELSE beginAttempt([call EXCEPT !.startPos = value], "svcEnd", 1)
      [] call.phase = "svcEnd" ->
           serviceAfterProbe(call,
               Boundaries(call.startPos,
                          IF value # NoPos THEN value ELSE getCursorPosition(call)))

(***************************************************************************)
(* Entry points                                                            *)
(***************************************************************************)

\* The alternate-screen test left out.
alternateScreenIgnored == FALSE

\* buffer.type === 'alternate' / frontend.isAlternateScreenActive()
isAlternateScreenActive == bufType = "alternate"

NothingToDo(call) == Step(Finished(call, NoResult, NoBoundaries, <<>>), <<>>, FALSE, 0)

\* TerminalTrackerService.extractCommand up to its first await: the context
\* carries a copy of the buffer's cursor fields.
trackerExtractCommand(call) ==
    IF isAlternateScreenActive THEN NothingToDo(call)
    ELSE probeExtract([call EXCEPT !.context =
                          [caller |-> "tracker", live |-> FALSE, buffer |-> cursor,
                           cursorPosition |-> cursor,
                           currentPrompt |-> getCurrentPrompt(Tab)]])

\* CursorProbeStrategy.extract called with a context whose buffer is
\* terminal.buffer.active itself.
strategyExtract(call) ==
    probeExtract([call EXCEPT !.context =
                     [caller |-> "probe", live |-> TRUE, buffer |-> cursor,
                      cursorPosition |-> cursor,
                      currentPrompt |-> getCurrentPrompt(Tab)]])

\* CommandExtractionService.extractCommand up to its first await.
serviceExtractCommand(call) ==
    IF isAlternateScreenActive THEN NothingToDo(call)
    ELSE beginAttempt([call EXCEPT !.context =
                          [caller |-> "service", live |-> TRUE, buffer |-> cursor,
                           cursorPosition |-> cursor, currentPrompt |-> NoMarker],
                                   !.originalPos = cursor],
                      "svcStart", 1)

\* PowerExtractionService.extractCommand
powerExtractCommand(call) ==
    IF isAlternateScreenActive THEN NothingToDo(call)
    ELSE LET result == powerExtract(lines, promptPositions[Tab], cursor)
         IN  Step(Finished([call EXCEPT !.context =
                               [caller |-> "power", live |-> TRUE, buffer |-> cursor,
                                cursorPosition |-> cursor, currentPrompt |-> NoMarker]],
                           result, powerBoundaries(lines, promptPositions[Tab], cursor),
                           <<IF result = NoResult THEN "power:none" ELSE "power:found">>),
                  <<>>, FALSE, 0)

extractCommand(call) ==
    CASE env.extractor = "tracker" -> trackerExtractCommand(call)
      [] env.extractor = "probe"   -> strategyExtract(call)
      [] env.extractor = "service" -> serviceExtractCommand(call)
      [] env.extractor = "power"   -> powerExtractCommand(call)

(***************************************************************************)
(* Actions                                                                 *)
(***************************************************************************)

\* No extraction has been asked for yet.
NotYetCalled == \A c \in Calls : calls[c].pc = "idle"

\* The records of the keys handed to sendInput for call c.
keyed(c, keys) == [ i \in 1..Len(keys) |-> [call |-> c, key |-> keys[i]] ]

\* The effect of a step of call c on the session of the modelled tab.
Effect(c, step) ==
    LET marked == markPromptAt(Tab, step.markX)
    IN  /\ step.mark => Len(markers) < env.history + MaxMarkers
        /\ calls' = [calls EXCEPT ![c] = step.call]
        /\ inputQueue' = inputQueue \o keyed(c, step.keys)
        /\ sent' = sent \o keyed(c, step.keys)
        /\ markers' = IF step.mark THEN marked.markers ELSE markers
        /\ regions' = IF step.mark THEN marked.regions ELSE regions
        /\ prompts' = IF step.mark THEN marked.prompts ELSE prompts
        /\ currentPrompt' = IF step.mark THEN marked.currentPrompt ELSE currentPrompt
        /\ UNCHANGED << lines, bufType, cursor, env, promptPositions, pendingChecks,
                        attached, captureTimers >>

\* A step of call c, which hands nothing to another tab.
Apply(c, step) == Effect(c, step) /\ UNCHANGED tabInput

\* extractCommand is called: everything up to the first await, or to the
\* return when nothing is awaited.
ExtractCommand(c) ==
    /\ calls[c].pc = "idle"
    /\ \A d \in Calls : d < c =>
          CASE env.again = "never"  -> FALSE
            [] env.again = "after"  -> calls[d].pc = "done" /\ inputQueue = <<>>
            [] env.again = "during" -> calls[d].pc # "idle"
    /\ Apply(c, extractCommand([IdleCall EXCEPT !.pre = Snapshot]))

\* checkCursor, the timer callback of tryCursorMove / probeCursorMove, and
\* when it resolves the promise, the code behind the await.
CheckCursor(c) ==
    /\ calls[c].pc = "sampling"
    /\ ~timedOut(calls[c])
    /\ calls[c].lateChecks = 0
    /\ env.promptReply => inputQueue = <<>>
    /\ LET call == calls[c]
           pos == getCursorPosition(call)
           same == call.attempt.lastPos = pos
           from == attemptFrom(call)
       IN  IF same /\ call.attempt.stableCount + 1 >= STABLE_READINGS
             THEN Apply(c, afterAttempt(call, IF pos # from THEN pos ELSE NoPos))
           ELSE /\ calls' = [calls EXCEPT ![c].attempt =
                               [stableCount |-> IF same THEN @.stableCount + 1 ELSE 0,
                                lastPos |-> pos,
                                checks |-> @.checks + 1]]
                /\ UNCHANGED << lines, bufType, cursor, env, tabInput, inputQueue, sent, markers,
                                regions, prompts, currentPrompt, promptPositions,
                                pendingChecks, attached, captureTimers >>

\* The timeout callback of tryCursorMove / probeCursorMove: the attempt is
\* not resolved yet, and resolves to the cursor position of the moment, or to
\* null when that is where the attempt set out from.  The check that the
\* last checkCursor scheduled is still to come.
Timeout(c) ==
    /\ calls[c].pc = "sampling"
    /\ timedOut(calls[c])
    /\ calls[c].lateChecks = 0
    /\ env.promptReply => inputQueue = <<>>
    /\ LET call == calls[c]
           finalPos == getCursorPosition(call)
       IN  Apply(c, afterAttempt([call EXCEPT !.lateChecks = @ + 1],
                                 IF finalPos # attemptFrom(call) THEN finalPos
                                 ELSE NoPos))

\* checkCursor of an attempt that the timeout has resolved: "if (resolved)
\* return", before anything is read or scheduled.  It was scheduled before
\* the checks of the attempt that followed, and runs before them.
LateCheck(c) ==
    /\ calls[c].lateChecks > 0
    /\ calls' = [calls EXCEPT ![c].lateChecks = @ - 1]
    /\ UNCHANGED << lines, bufType, cursor, env, tabInput, inputQueue, sent, markers, regions,
                    prompts, currentPrompt, promptPositions, pendingChecks, attached,
                    captureTimers >>

\* The line editor acts on the next key it was sent: a start key it is bound
\* to puts the cursor at the start of its region, an end key at the end; any
\* other key, and any key while a full-screen application has the terminal,
\* leaves the cursor alone.
EditorProcess ==
    /\ inputQueue # <<>>
    /\ Head(inputQueue).key \in StartKeys \cup EndKeys
    /\ LET k == Head(inputQueue)
           target == IF bufType = "normal" /\ k.key \in env.honours
                       THEN IF k.key \in StartKeys THEN env.sc.start ELSE env.sc.end
                     ELSE cursor
       IN  /\ cursor' = target
           /\ calls' = [calls EXCEPT ![k.call].movedByStart =
                          @ \/ (k.key \in StartKeys /\ target # cursor)]
    /\ inputQueue' = Tail(inputQueue)
    /\ UNCHANGED << lines, bufType, env, tabInput, sent, markers, regions, prompts,
                    currentPrompt, promptPositions, pendingChecks, attached,
                    captureTimers >>

\* The user moves the cursor inside the command line before asking for an
\* extraction.
UserMoveCursor(p) ==
    /\ NotYetCalled /\ bufType = "normal"
    /\ p \in RegionPositions(env.sc) /\ p # cursor
    /\ cursor' = p
    /\ UNCHANGED << lines, bufType, env, tabInput, inputQueue, sent, markers, regions, prompts,
                    currentPrompt, promptPositions, pendingChecks, attached,
                    captureTimers, calls >>

\* TerminalTrackerService.markCurrentPrompt
MarkCurrentPrompt ==
    /\ env.extractor = "tracker"
    /\ isAttached(Tab)
    /\ NotYetCalled /\ Len(markers) < env.history + MaxMarkers
    /\ LET marked == markPromptAt(Tab, cursor.x)
       IN  /\ markers' = marked.markers
           /\ regions' = marked.regions
           /\ prompts' = marked.prompts
           /\ currentPrompt' = marked.currentPrompt
    /\ UNCHANGED << lines, bufType, cursor, env, tabInput, inputQueue, sent, promptPositions,
                    pendingChecks, attached, captureTimers, calls >>

\* Every row taken for a prompt.
anyRowIsPrompt(text, cursorX) == TRUE

\* PromptMarkerService.looksLikePrompt
looksLikePrompt(text, cursorX) ==
    LET beforeCursor == substring(text, 0, cursorX)
        trimmedBefore == trimEnd(beforeCursor)
        lastChar == charAt(trimmedBefore, Len(trimmedBefore) - 1)
        secondLastChar == charAt(trimmedBefore, Len(trimmedBefore) - 2)
    IN  /\ \E i \in 1..Len(beforeCursor) : beforeCursor[i] \in servicePromptChars
        /\ trimmedBefore # <<>>
        /\ lastChar \in servicePromptChars \/ secondLastChar \in servicePromptChars

\* The terminal reports a line feed: PromptMarkerService.schedulePromptCheck
\* replaces the pending timer.
LineFeed ==
    /\ env.extractor = "tracker"
    /\ listening(Tab)
    /\ NotYetCalled
    /\ pendingChecks' = [pendingChecks EXCEPT ![Tab] = TRUE]
    /\ UNCHANGED << lines, bufType, cursor, env, tabInput, inputQueue, sent, markers, regions,
                    prompts, currentPrompt, promptPositions, attached, captureTimers,
                    calls >>

\* The timer of schedulePromptCheck fires: PromptMarkerService.checkForPrompt
CheckForPrompt ==
    /\ env.extractor = "tracker"
    /\ NotYetCalled /\ Len(markers) < env.history + MaxMarkers
    /\ pendingChecks[Tab]
    /\ pendingChecks' = [pendingChecks EXCEPT ![Tab] = FALSE]
    /\ LET found == /\ bufType # "alternate"
                    /\ cursor.x <= 100
                    /\ hasLine(lines, cursor.y)
                    /\ looksLikePrompt(
                          translateToString(getLine(lines, cursor.y), 0, NoColumn),
                          cursor.x)
           marked == markPromptAt(Tab, cursor.x)
       IN  /\ markers' = IF found THEN marked.markers ELSE markers
           /\ regions' = IF found THEN marked.regions ELSE regions
           /\ prompts' = IF found THEN marked.prompts ELSE prompts
           /\ currentPrompt' = IF found THEN marked.currentPrompt ELSE currentPrompt
    /\ UNCHANGED << lines, bufType, cursor, env, tabInput, inputQueue, sent, promptPositions,
                    attached, captureTimers, calls >>

\* PowerExtractionService.looksLikePrompt
powerLooksLikePrompt(text) ==
    /\ trimEnd(text) # <<>>
    /\ \E i \in 1..Len(trimEnd(text)) : text[i] \in servicePromptChars

\* promptPositions after PowerExtractionService.capturePromptPosition
capturePromptPosition(terminalId) ==
    IF /\ cursor.x <= 100
       /\ hasLine(lines, cursor.y)
       /\ powerLooksLikePrompt(translateToString(getLine(lines, cursor.y), 0, cursor.x))
      THEN [promptPositions EXCEPT ![terminalId] = [line |-> cursor.y, x |-> cursor.x]]
    ELSE promptPositions

\* PowerExtractionService.capturePromptPosition, called for the session.
CapturePromptPosition ==
    /\ env.extractor = "power"
    /\ NotYetCalled
    /\ promptPositions' = capturePromptPosition(Tab)
    /\ UNCHANGED << lines, bufType, cursor, env, tabInput, inputQueue, sent, markers, regions,
                    prompts, currentPrompt, pendingChecks, attached, captureTimers,
                    calls >>

\* While an attempt waits, the terminal goes on parsing what the session
\* writes (a redraw of the line in several steps, the output of a job): the
\* cursor is put elsewhere on the command line.
Redraw(p) ==
    /\ \E c \in Calls : calls[c].pc = "sampling"
    /\ bufType = "normal"
    /\ p \in RegionPositions(env.sc) /\ p # cursor
    /\ cursor' = p
    /\ UNCHANGED << lines, bufType, env, tabInput, inputQueue, sent, markers, regions, prompts,
                    currentPrompt, promptPositions, pendingChecks, attached,
                    captureTimers, calls >>

\* A full-screen application takes the terminal over: xterm switches to the
\* alternate buffer.  The markers stay with the normal buffer.
EnterAlternateScreen ==
    /\ bufType = "normal"
    /\ NotYetCalled
    /\ bufType' = "alternate"
    /\ UNCHANGED << lines, cursor, env, tabInput, inputQueue, sent, markers, regions, prompts,
                    currentPrompt, promptPositions, pendingChecks, attached,
                    captureTimers, calls >>

(***************************************************************************)
(* The life of a session: detach, timers, markers the terminal disposes    *)
(***************************************************************************)

\* How many capture timers of a session may be pending at once.
MaxTimers == 2

\* How many markers the terminal disposes of in a run.
MaxDisposed == 2

\* The rows of n earlier prompts, each with the command that was run at it.
History(n) == [ i \in 1..n |-> Row(PS1 \o << "a" >>, FALSE) ]

\* The terminal of sc after n earlier prompts.
After(n, sc) ==
    [sc EXCEPT !.lines = History(n) \o sc.lines,
               !.start = Pos(sc.start.x, sc.start.y + n),
               !.end = Pos(sc.end.x, sc.end.y + n)]

\* The markers of a list.
markersOf(list) == { list[i] : i \in 1..Len(list) }

\* The dispose() of the handle TerminalTrackerService.attach returned, which
\* runs the dispose() of PromptMarkerService.attach: the pending timer is
\* cleared, every marker of the session is disposed, the session's entries of
\* prompts and currentPrompt are deleted, the listeners are removed.
DetachTracker ==
    /\ env.extractor = "tracker"
    /\ isAttached(Tab)
    /\ pendingChecks' = [pendingChecks EXCEPT ![Tab] = FALSE]
    /\ markers' = disposeAll(markers, markersOf(prompts[Tab]))
    /\ prompts' = [prompts EXCEPT ![Tab] = <<>>]
    /\ currentPrompt' = [currentPrompt EXCEPT ![Tab] = NoMarker]
    /\ attached' = [attached EXCEPT ![Tab] = handleDisposed(@, @.entry)]
    /\ UNCHANGED << lines, bufType, cursor, env, tabInput, inputQueue, sent, regions,
                    promptPositions, captureTimers, calls >>

\* The dispose() of the handle PowerExtractionService.attach returned: the
\* listeners are removed and the session's prompt position is deleted.  The
\* timers of attach and of schedulePromptCapture have no handle and stay.
DetachPower ==
    /\ env.extractor = "power"
    /\ isAttached(Tab)
    /\ promptPositions' = [promptPositions EXCEPT ![Tab] = NoPromptPosition]
    /\ attached' = [attached EXCEPT ![Tab] = handleDisposed(@, @.entry)]
    /\ UNCHANGED << lines, bufType, cursor, env, tabInput, inputQueue, sent, markers, regions,
                    prompts, currentPrompt, pendingChecks, captureTimers, calls >>

\* The terminal reports a line feed to the listener of PowerExtractionService:
\* schedulePromptCapture sets one more timer.
PowerLineFeed ==
    /\ env.extractor = "power"
    /\ listening(Tab)
    /\ captureTimers[Tab].lineFeed < MaxTimers
    /\ captureTimers' = [captureTimers EXCEPT ![Tab].lineFeed = @ + 1]
    /\ UNCHANGED << lines, bufType, cursor, env, tabInput, inputQueue, sent, markers, regions,
                    prompts, currentPrompt, promptPositions, pendingChecks, attached,
                    calls >>

\* The timer PowerExtractionService.attach set runs capturePromptPosition.
AttachTimer ==
    /\ captureTimers[Tab].attach > 0
    /\ captureTimers' = [captureTimers EXCEPT ![Tab].attach = @ - 1]
    /\ promptPositions' = capturePromptPosition(Tab)
    /\ UNCHANGED << lines, bufType, cursor, env, tabInput, inputQueue, sent, markers, regions,
                    prompts, currentPrompt, pendingChecks, attached, calls >>

\* A timer of schedulePromptCapture runs: capturePromptPosition when the
\* cursor is left of column 100.
CaptureTimer ==
    /\ captureTimers[Tab].lineFeed > 0
    /\ captureTimers' = [captureTimers EXCEPT ![Tab].lineFeed = @ - 1]
    /\ promptPositions' =
         IF cursor.x < 100 THEN capturePromptPosition(Tab) ELSE promptPositions
    /\ UNCHANGED << lines, bufType, cursor, env, tabInput, inputQueue, sent, markers, regions,
                    prompts, currentPrompt, pendingChecks, attached, calls >>

\* The markers the terminal has on record that are disposed.
disposedMarkers == { m \in 1..Len(markers) : markers[m].isDisposed }

\* The markers the terminal may dispose of next: the oldest live one of the
\* session when its row leaves the scrollback, or one of the latest when its
\* row is deleted in view.
disposable(terminalId) ==
    LET live == markersOf(prompts[terminalId]) \ disposedMarkers
    IN  { m \in live : m = SetMin(live) \/ m > Len(markers) - MaxMarkers }

\* xterm disposes of a marker whose row was trimmed or deleted.
HostDispose(m) ==
    /\ env.extractor = "tracker"
    /\ NotYetCalled
    /\ m \in disposable(Tab)
    /\ Cardinality(disposedMarkers) < MaxDisposed
    /\ markers' = disposeAll(markers, {m})
    /\ UNCHANGED << lines, bufType, cursor, env, tabInput, inputQueue, sent, regions, prompts,
                    currentPrompt, promptPositions, pendingChecks, attached,
                    captureTimers, calls >>

\* prompts.filter(p => !p.marker.isDisposed)
liveOnly(list) == SelectSeq(list, LAMBDA m : ~markers[m].isDisposed)

\* The terminal has parsed a write: PromptMarkerService.cleanupDisposedMarkers
\* drops the disposed entries, and when the current prompt's marker is
\* disposed makes the last live entry current, or none.
WriteParsed ==
    /\ env.extractor = "tracker"
    /\ listening(Tab)
    /\ NotYetCalled
    /\ LET valid == liveOnly(prompts[Tab])
           current == currentPrompt[Tab]
       IN  /\ prompts' = [prompts EXCEPT ![Tab] = valid]
           /\ currentPrompt' =
                IF current # NoMarker /\ markers[current].isDisposed
                  THEN [currentPrompt EXCEPT ![Tab] =
                          IF valid # <<>> THEN valid[Len(valid)] ELSE NoMarker]
                ELSE currentPrompt
    /\ UNCHANGED << lines, bufType, cursor, env, tabInput, inputQueue, sent, markers, regions,
                    promptPositions, pendingChecks, attached, captureTimers, calls >>

(***************************************************************************)
(* Several sessions of one TerminalTrackerService                          *)
(***************************************************************************)

\* How many times attach is called for one id.
MaxHandles == 3

\* What a callback reads from the terminal it was registered for: the type
\* of the active buffer, the cursor and the text of the cursor row.
Screens ==
    [type : {"normal", "alternate"}, cursor : {Pos(2, 0), Pos(2, 1)},
     text : {PS1 \o << "a" >>, << "a", "b" >>}]

\* The markers of every session.
trackedByAnyone(terminalId) == UNION { markersOf(prompts[t]) : t \in Terminals }

\* this.prompts.get(terminalId): the markers of the session.
trackedBy(terminalId) == markersOf(prompts[terminalId])

\* The dispose() that TerminalTrackerService.attach returned as handle h for
\* the id: PromptMarkerService's dispose clears the pending timer of the id,
\* disposes every marker in the list of the id, deletes the id's entries of
\* prompts and currentPrompt and removes the listeners of handle h; then the
\* registry entry of the id is deleted.
SessionDispose(t, h) ==
    /\ h \in DOMAIN attached[t].listening
    /\ pendingChecks' = [pendingChecks EXCEPT ![t] = FALSE]
    /\ markers' = disposeAll(markers, trackedBy(t))
    /\ prompts' = [prompts EXCEPT ![t] = <<>>]
    /\ currentPrompt' = [currentPrompt EXCEPT ![t] = NoMarker]
    /\ attached' = [attached EXCEPT ![t] = handleDisposed(@, h)]
    /\ UNCHANGED << lines, bufType, cursor, env, tabInput, inputQueue, sent, regions,
                    promptPositions, captureTimers, calls >>

\* TerminalTrackerService.detach: the dispose() of the registry entry.
SessionDetach(t) ==
    /\ isAttached(t)
    /\ SessionDispose(t, attached[t].entry)

\* TerminalTrackerService.attach: detach(id), then new listeners and a new
\* handle, which becomes the registry entry of the id.
SessionAttach(t) ==
    /\ Len(attached[t].listening) < MaxHandles
    /\ LET had == isAttached(t)
           before == IF had THEN handleDisposed(attached[t], attached[t].entry)
                     ELSE attached[t]
       IN  /\ pendingChecks' = IF had THEN [pendingChecks EXCEPT ![t] = FALSE]
                                ELSE pendingChecks
           /\ markers' = IF had THEN disposeAll(markers, trackedBy(t)) ELSE markers
           /\ prompts' = IF had THEN [prompts EXCEPT ![t] = <<>>] ELSE prompts
           /\ currentPrompt' = IF had THEN [currentPrompt EXCEPT ![t] = NoMarker]
                                ELSE currentPrompt
           /\ attached' = [attached EXCEPT ![t] =
                             [entry |-> Len(before.listening) + 1,
                              listening |-> Append(before.listening, TRUE)]]
    /\ UNCHANGED << lines, bufType, cursor, env, tabInput, inputQueue, sent, regions,
                    promptPositions, captureTimers, calls >>

\* The onLineFeed listeners of the id run: schedulePromptCheck.
SessionLineFeed(t) ==
    /\ listening(t)
    /\ pendingChecks' = [pendingChecks EXCEPT ![t] = TRUE]
    /\ UNCHANGED << lines, bufType, cursor, env, tabInput, inputQueue, sent, markers, regions,
                    prompts, currentPrompt, promptPositions, attached, captureTimers,
                    calls >>

\* The timer of the id fires: checkForPrompt on what its terminal shows.
SessionCheckForPrompt(t, screen) ==
    /\ pendingChecks[t]
    /\ Len(markers) < env.history + MaxMarkers
    /\ pendingChecks' = [pendingChecks EXCEPT ![t] = FALSE]
    /\ LET found == /\ screen.type # "alternate"
                    /\ screen.cursor.x <= 100
                    /\ looksLikePrompt(screen.text, screen.cursor.x)
           marked == markPromptOn(t, screen.type, screen.cursor.y, screen.cursor.x)
       IN  /\ markers' = IF found THEN marked.markers ELSE markers
           /\ regions' = IF found THEN marked.regions ELSE regions
           /\ prompts' = IF found THEN marked.prompts ELSE prompts
           /\ currentPrompt' = IF found THEN marked.currentPrompt ELSE currentPrompt
    /\ UNCHANGED << lines, bufType, cursor, env, tabInput, inputQueue, sent, promptPositions,
                    attached, captureTimers, calls >>

\* TerminalTrackerService.markCurrentPrompt for the id.
SessionMark(t, screen) ==
    /\ Len(markers) < env.history + MaxMarkers
    /\ LET marked == markPromptOn(t, screen.type, screen.cursor.y, screen.cursor.x)
       IN  /\ markers' = marked.markers
           /\ regions' = marked.regions
           /\ prompts' = marked.prompts
           /\ currentPrompt' = marked.currentPrompt
    /\ UNCHANGED << lines, bufType, cursor, env, tabInput, inputQueue, sent, promptPositions,
                    pendingChecks, attached, captureTimers, calls >>

\* The onWriteParsed listeners of the id run: cleanupDisposedMarkers.
SessionSweep(t) ==
    /\ listening(t)
    /\ LET valid == liveOnly(prompts[t])
           current == currentPrompt[t]
       IN  /\ prompts' = [prompts EXCEPT ![t] = valid]
           /\ currentPrompt' =
                IF current # NoMarker /\ markers[current].isDisposed
                  THEN [currentPrompt EXCEPT ![t] =
                          IF valid # <<>> THEN valid[Len(valid)] ELSE NoMarker]
                ELSE currentPrompt
    /\ UNCHANGED << lines, bufType, cursor, env, tabInput, inputQueue, sent, markers, regions,
                    promptPositions, pendingChecks, attached, captureTimers, calls >>

\* What the tracker is asked to do, and what its callbacks do, for the id.
SessionNext(t) ==
    \/ SessionAttach(t)
    \/ SessionDetach(t)
    \/ \E h \in 1..MaxHandles : SessionDispose(t, h)
    \/ SessionLineFeed(t)
    \/ \E screen \in Screens : SessionCheckForPrompt(t, screen)
    \/ \E screen \in Screens : SessionMark(t, screen)
    \/ SessionSweep(t)

\* xterm disposes of a marker of the id whose row was trimmed.
SessionHostDispose(t, m) ==
    /\ m \in trackedBy(t) \ disposedMarkers
    /\ Cardinality(disposedMarkers) < MaxDisposed
    /\ markers' = disposeAll(markers, {m})
    /\ UNCHANGED << lines, bufType, cursor, env, tabInput, inputQueue, sent, regions, prompts,
                    currentPrompt, promptPositions, pendingChecks, attached,
                    captureTimers, calls >>

(***************************************************************************)
(* CommandEditorDecorator                                                  *)
(***************************************************************************)

\* command.replace(/\n+/g, ' ')
RECURSIVE newlinesToSpaces(_)
newlinesToSpaces(command) ==
    IF command = <<>> THEN <<>>
    ELSE IF Head(command) # NL THEN << Head(command) >> \o newlinesToSpaces(Tail(command))
    ELSE IF Len(command) > 1 /\ command[2] = NL THEN newlinesToSpaces(Tail(command))
    ELSE << " " >> \o newlinesToSpaces(Tail(command))

\* CommandEditorDecorator.insertCommand: the data it hands to sendInput.
insertCommand(command, supportsBracketedPaste) ==
    LET hasNewlines == \E i \in 1..Len(command) : command[i] = NL
    IN  IF hasNewlines /\ supportsBracketedPaste
          THEN << "ESC[200~" >> \o command \o << "ESC[201~" >>
        ELSE IF hasNewlines THEN newlinesToSpaces(command)
        ELSE command

\* The texts the user may leave in the editor.
EditedCommands == { << "a" >>, << "a", NL, "b" >> }

\* The rows after frontend.write of clearCurrentCommand's cleanup sequence:
\* the cursor row and the linesToClear - 1 rows above it are erased.
clearedLines(linesToClear) ==
    [ i \in 1..Len(lines) |->
        IF i - 1 <= cursor.y /\ i - 1 > cursor.y - linesToClear
          THEN Row(<<>>, FALSE)
        ELSE lines[i] ]

\* CommandEditorDecorator.openCommandEditor from the return of extractCommand
\* to the open modal: nothing to edit is notified; else clearCurrentCommand
\* cancels a multi-line command with Ctrl+C and erases its rows, or kills a
\* single-line command with Ctrl+U.
OpenEditor(c) ==
    /\ env.extractor = "service"
    /\ calls[c].pc = "done" /\ calls[c].editor = "none"
    /\ LET result == calls[c].result
           nothing == result = NoResult \/ trim(result.command) = <<>>
           linesToClear == result.endLine - result.startLine + 1
           keys == IF nothing THEN <<>>
                   ELSE IF result.isMultiLine THEN << "^C" >> ELSE << "^U" >>
       IN  /\ calls' = [calls EXCEPT ![c].editor = IF nothing THEN "nothing" ELSE "open"]
           /\ inputQueue' = inputQueue \o keyed(c, keys)
           /\ sent' = sent \o keyed(c, keys)
           /\ lines' = IF ~nothing /\ result.isMultiLine
                         THEN clearedLines(linesToClear) ELSE lines
           /\ cursor' = IF ~nothing /\ result.isMultiLine
                          THEN Pos(0, Max(0, cursor.y - (linesToClear - 1)))
                        ELSE cursor
    /\ UNCHANGED << bufType, env, tabInput, markers, regions, prompts, currentPrompt,
                    promptPositions, pendingChecks, attached, captureTimers >>

\* The user applies the edit (modal.result resolves): insertCommand, and a
\* carriage return when the configuration says executeImmediately.
SaveEdit(c, editedCommand) ==
    /\ calls[c].editor = "open"
    /\ LET keys == << "insert" >>
                   \o IF env.config.executeImmediately THEN << "\r" >> ELSE <<>>
       IN  /\ calls' = [calls EXCEPT ![c].editor = "saved",
                                     ![c].inserted =
                                        insertCommand(editedCommand, env.bracketedPaste)]
           /\ inputQueue' = inputQueue \o keyed(c, keys)
           /\ sent' = sent \o keyed(c, keys)
    /\ UNCHANGED << lines, bufType, cursor, env, tabInput, markers, regions, prompts,
                    currentPrompt, promptPositions, pendingChecks, attached,
                    captureTimers >>

\* The user cancels (modal.result rejects): the original command is inserted
\* again.
CancelEdit(c) ==
    /\ calls[c].editor = "open"
    /\ calls' = [calls EXCEPT ![c].editor = "cancelled",
                              ![c].inserted =
                                 insertCommand(calls[c].result.command,
                                               env.bracketedPaste)]
    /\ inputQueue' = inputQueue \o keyed(c, << "insert" >>)
    /\ sent' = sent \o keyed(c, << "insert" >>)
    /\ UNCHANGED << lines, bufType, cursor, env, tabInput, markers, regions, prompts,
                    currentPrompt, promptPositions, pendingChecks, attached,
                    captureTimers >>

\* How many hotkey events reach a tab whose terminal is not modelled.
MaxTabInput == 1

\* CommandEditorDecorator.attach for another tab: its handler is subscribed
\* to the hotkeys.
TabAttach(t) ==
    /\ env.extractor = "service"
    /\ t # Tab
    /\ attached[t] = NeverAttached
    /\ attached' = [attached EXCEPT ![t] = FirstAttachment]
    /\ UNCHANGED << lines, bufType, cursor, env, tabInput, inputQueue, sent, markers,
                    regions, prompts, currentPrompt, promptPositions, pendingChecks,
                    captureTimers, calls >>

\* A tab is detached: the subscription of its handler ends.
TabDetach(t) ==
    /\ env.extractor = "service"
    /\ listening(t)
    /\ attached' = [attached EXCEPT ![t] = handleDisposed(@, @.entry)]
    /\ UNCHANGED << lines, bufType, cursor, env, tabInput, inputQueue, sent, markers,
                    regions, prompts, currentPrompt, promptPositions, pendingChecks,
                    captureTimers, calls >>

\* The handler of the modelled tab, from the hotkey to the first await of
\* the extraction: it returns at once when the frontend shows the alternate
\* screen.
hotkeyHandler(call) ==
    IF isAlternateScreenActive
      THEN Step([Finished(call, NoResult, NoBoundaries, <<>>) EXCEPT !.editor = "ignored"],
                <<>>, FALSE, 0)
    ELSE serviceExtractCommand(call)

\* hotkeys.hotkey$ emits 'open-command-editor': the handler of every
\* subscribed tab runs, up to its first await.  The handler of a tab whose
\* frontend does not show the alternate screen calls openCommandEditor, and
\* with it extractCommand, which hands Ctrl+A to the sendInput of that tab;
\* alternate is the set of other tabs that show the alternate screen.
Hotkey(c, alternate) ==
    /\ env.extractor = "service"
    /\ calls[c].pc = "idle"
    /\ \A d \in Calls : d < c => calls[d].pc = "done" /\ env.again # "never"
    /\ alternate \subseteq Terminals \ {Tab}
    /\ \A t \in Terminals : Len(tabInput[t]) < MaxTabInput
    /\ tabInput' = [t \in Terminals |->
                      IF t # Tab /\ listening(t) /\ t \notin alternate
                        THEN tabInput[t] \o << keyOf("svcStart", 1) >>
                      ELSE tabInput[t]]
    /\ IF listening(Tab)
         THEN Effect(c, hotkeyHandler([IdleCall EXCEPT !.pre = Snapshot]))
       ELSE UNCHANGED << lines, bufType, cursor, env, inputQueue, sent, markers,
                         regions, prompts, currentPrompt, promptPositions,
                         pendingChecks, attached, captureTimers, calls >>

Next ==
    \/ \E c \in Calls : ExtractCommand(c)
    \/ \E c \in Calls : CheckCursor(c)
    \/ EditorProcess
    \/ \E p \in RegionPositions(env.sc) : UserMoveCursor(p)
    \/ MarkCurrentPrompt
    \/ LineFeed
    \/ CheckForPrompt
    \/ CapturePromptPosition
    \/ EnterAlternateScreen

\* The session of env, attached: on a terminal that has shown env.history
\* prompts before, each found and marked by checkForPrompt when it appeared,
\* or attached just now, with the timer of PowerExtractionService.attach
\* still to run.
Attached ==
    /\ lines = env.sc.lines
    /\ bufType = "normal"
    /\ cursor \in RegionPositions(env.sc)
    /\ inputQueue = <<>>
    /\ sent = <<>>
    /\ tabInput = [t \in Terminals |-> <<>>]
    /\ markers = [m \in 1..env.history |-> [line |-> m - 1, isDisposed |-> FALSE]]
    /\ regions = [m \in 1..env.history |-> Region(Len(PS1), m)]
    /\ prompts = [t \in Terminals |->
                    IF t = Tab THEN [m \in 1..env.history |-> m] ELSE <<>>]
    /\ currentPrompt = [t \in Terminals |->
                          IF t = Tab /\ env.history > 0 THEN env.history ELSE NoMarker]
    /\ promptPositions = [t \in Terminals |-> NoPromptPosition]
    /\ pendingChecks = [t \in Terminals |-> FALSE]
    /\ attached = [t \in Terminals |->
                     IF t = Tab THEN FirstAttachment ELSE NeverAttached]
    /\ captureTimers = [t \in Terminals |->
                          [attach |-> IF t = Tab /\ env.justAttached THEN 1 ELSE 0,
                           lineFeed |-> 0]]
    /\ calls = [c \in Calls |-> IdleCall]

\* A session some time after the plugin attached to it, before any prompt
\* was marked.
Fresh(scs, replies, agains) ==
    /\ env \in [sc : scs, extractor : Extractors, honours : Bindings,
                promptReply : replies, again : agains, history : {0},
                justAttached : {FALSE}, config : {defaults},
                bracketedPaste : {TRUE}]
    /\ Attached

\* Timing: one extraction with a line editor that may answer a key at any
\* time, or a second extraction requested while the first may still be running.
Init ==
    /\ Fresh(ProcessScenarios, BOOLEAN, {"never", "during"})
    /\ env.promptReply = (env.again = "during")
    /\ env.again = "during" =>
          /\ env.sc = Single(PS1, << "a", "b" >>)
          /\ env.honours = StartKeys \cup EndKeys

Spec == Init /\ [][Next]_vars

\* Text: every command text, with a line editor that answers each key before
\* the next cursor check, and a second extraction right after the first.
InitText == Fresh(TextScenarios, {TRUE}, {"after"})

SpecText == InitText /\ [][Next]_vars

\* The life of a session: one extraction in a session that may be detached
\* at any time, whose timers run when they will, whose markers the terminal
\* may dispose of, and the editor behind the extraction.
SessionScenarios ==
    { Single(PS1, << "a", "b" >>),
      Wrapped(PS1, << "a", "b" >>, << "c", "d" >>),
      ContinuedOnce(PS1, << "a" >>, << "b" >>) }

Configs == { defaults, [executeImmediately |-> FALSE] }

SessionEnvs ==
    { e \in [sc : SessionScenarios, extractor : Services, honours : { {"^A", "^E"} },
             promptReply : {TRUE}, again : {"never"}, history : {0},
             justAttached : BOOLEAN, config : Configs, bracketedPaste : BOOLEAN] :
        /\ e.justAttached = (e.extractor = "power")
        /\ e.extractor # "service" => e.config = defaults /\ e.bracketedPaste }

InitSession == env \in SessionEnvs /\ Attached

NextSession ==
    \/ \E c \in Calls : ExtractCommand(c)
    \/ \E c \in Calls : CheckCursor(c)
    \/ EditorProcess
    \/ \E p \in RegionPositions(env.sc) : UserMoveCursor(p)
    \/ MarkCurrentPrompt
    \/ LineFeed
    \/ CheckForPrompt
    \/ DetachTracker
    \/ DetachPower
    \/ PowerLineFeed
    \/ AttachTimer
    \/ CaptureTimer
    \/ \E m \in disposable(Tab) : HostDispose(m)
    \/ WriteParsed
    \/ \E c \in Calls : OpenEditor(c)
    \/ \E c \in Calls, e \in EditedCommands : SaveEdit(c, e)
    \/ \E c \in Calls : CancelEdit(c)

SpecSession == InitSession /\ [][NextSession]_vars

\* The marker set of a tracker session: marks by hand and by checkForPrompt,
\* disposals by the terminal, sweeps and the detach, on a terminal with no
\* prompt on record or with one less than the set can hold.
MarkerEnvs ==
    [sc : { After(h, Wrapped(PS1, << "a" >>, << "b" >>)) :
              h \in {0, MAX_PROMPTS - 1} },
     extractor : {"tracker"}, honours : { {} }, promptReply : {TRUE},
     again : {"never"}, history : {0, MAX_PROMPTS - 1}, justAttached : {FALSE},
     config : {defaults}, bracketedPaste : {TRUE}]

InitMarkers ==
    /\ env \in MarkerEnvs
    /\ Len(env.sc.lines) = env.history + 2
    /\ Attached

NextMarkers ==
    \/ \E p \in RegionPositions(env.sc) : UserMoveCursor(p)
    \/ MarkCurrentPrompt
    \/ LineFeed
    \/ CheckForPrompt
    \/ \E m \in disposable(Tab) : HostDispose(m)
    \/ WriteParsed
    \/ DetachTracker

SpecMarkers == InitMarkers /\ [][NextMarkers]_vars

\* A prompt that ends in ">" and one space, as PowerShell's.
PwshPS1 == << "P", "S", ">", " " >>

\* Text that looksLikeOutput takes for a label.
LabelText == << "E", "r", " ", "x" >>

\* A row of typed text with no prompt of its own, right under the row of a
\* prompt and its command.
UnderPrompt(p, c, typed) ==
    Scenario("single", << Row(p \o c, FALSE), Row(typed, FALSE) >>,
             Pos(0, 1), Pos(Len(typed), 1), <<>>, typed)

\* A command that the terminal wrapped onto n more rows.
LongWrapped(p, c, n) ==
    Scenario("wrapped",
             << Row(p \o c, FALSE) >> \o [ i \in 1..n |-> Row(c, TRUE) ],
             Pos(Len(p), 0), Pos(Len(c), n), p,
             [ i \in 1..((n + 1) * Len(c)) |-> c[((i - 1) % Len(c)) + 1] ])

\* The scan: one extraction by the tracker, whose probe reads a copy of the
\* cursor and so leaves the work to the heuristic, with the cursor anywhere on
\* the command, on terminals of every prompt and shape, the prompt row marked
\* by checkForPrompt when it appeared or not at all.
ScanScenarios ==
    { Single(p, c) : p \in {PS1, PwshPS1}, c \in {<<>>, << "a", "b" >>} }
    \cup { Wrapped(PS1, << "a", "b" >>, << "c", "d" >>),
           ContinuedOnce(PS1, << "a" >>, << "b" >>),
           Below(LabelText, Single(PS1, << "a" >>)),
           Below(<< "o" >>, Single(PS1, << "a" >>)),
           UnderPrompt(PS1, << "a" >>, LabelText),
           LongWrapped(PS1, << "a" >>, MAX_SCAN_LINES + 1) }

ScanEnvs ==
    { e \in [sc : ScanScenarios, extractor : {"tracker"},
             honours : { {}, {"^A", "^E"} }, promptReply : {TRUE},
             again : {"never"}, history : {0, 1}, justAttached : {FALSE},
             config : {defaults}, bracketedPaste : {TRUE}] :
        e.history = 1 => e.sc.prompt = PS1 /\ startsWith(e.sc.lines[1].text, PS1) }

InitScan == env \in ScanEnvs /\ Attached

NextScan ==
    \/ \E c \in Calls : ExtractCommand(c)
    \/ \E c \in Calls : CheckCursor(c)
    \/ EditorProcess
    \/ \E p \in RegionPositions(env.sc) : UserMoveCursor(p)

SpecScan == InitScan /\ [][NextScan]_vars

\* The attempts of the probes: one extraction on a terminal whose cursor may
\* be moved by the session at any time while an attempt waits, with the
\* timeout of each attempt.
ProbeEnvs ==
    [sc : { Single(PS1, << "a" >>) },
     extractor : {"tracker", "probe", "service"}, honours : Bindings,
     promptReply : BOOLEAN, again : {"never"}, history : {0},
     justAttached : {FALSE}, config : {defaults}, bracketedPaste : {TRUE}]

InitProbe == env \in ProbeEnvs /\ Attached

NextProbe ==
    \/ \E c \in Calls : ExtractCommand(c)
    \/ \E c \in Calls : CheckCursor(c)
    \/ \E c \in Calls : Timeout(c)
    \/ \E c \in Calls : LateCheck(c)
    \/ EditorProcess
    \/ \E p \in RegionPositions(env.sc) : UserMoveCursor(p)
    \/ \E p \in RegionPositions(env.sc) : Redraw(p)

SpecProbe == InitProbe /\ [][NextProbe]_vars

\* A command continued over n more rows, each but the last ending in the
\* line-continuation marker.
LongContinued(p, c, n) ==
    Scenario("continued",
             << Row(p \o c \o Continued, FALSE) >>
               \o [ i \in 1..n |->
                      Row(PS2 \o c \o (IF i < n THEN Continued ELSE <<>>), FALSE) ],
             Pos(Len(PS2), n), Pos(Len(PS2) + Len(c), n), p, c)

\* Output whose last character is a backslash.
BackslashText == << "o", "\\" >>

\* The expansion: one extraction by the Ctrl+A/Ctrl+E service on commands
\* continued over none, one, two and more than MAX_SCAN_LINES rows, behind a
\* prompt or with none, under output that ends in a backslash or does not.
ExpandScenarios ==
    { Single(PS1, << "a" >>),
      ContinuedOnce(PS1, << "a" >>, << "b" >>),
      ContinuedOnce(<<>>, << "a" >>, << "b" >>),
      ContinuedTwice(PS1, << "a" >>, << "a" >>, << "b" >>),
      Below(<< "o" >>, ContinuedOnce(PS1, << "a" >>, << "b" >>)),
      Below(BackslashText, Single(PS1, << "a" >>)),
      Below(BackslashText, ContinuedOnce(PS1, << "a" >>, << "b" >>)),
      LongContinued(PS1, << "a" >>, MAX_SCAN_LINES + 1) }

ExpandEnvs ==
    [sc : ExpandScenarios, extractor : {"service"}, honours : Bindings,
     promptReply : {TRUE}, again : {"never"}, history : {0},
     justAttached : {FALSE}, config : {defaults}, bracketedPaste : {TRUE}]

InitExpand == env \in ExpandEnvs /\ Attached

NextExpand ==
    \/ \E c \in Calls : ExtractCommand(c)
    \/ \E c \in Calls : CheckCursor(c)
    \/ EditorProcess
    \/ \E p \in RegionPositions(env.sc) : UserMoveCursor(p)

SpecExpand == InitExpand /\ [][NextExpand]_vars

\* A prompt n columns wide: a long path, the glyph and one space.
WidePS1(n) == [ i \in 1..(n - 2) |-> "u" ] \o PS1

\* The settle check and the mark by hand: line feeds and the checks they
\* schedule, and calls of markCurrentPrompt, on terminals whose prompt ends at
\* column 2, at column 100, past column 100, or that show no prompt glyph,
\* in the normal buffer and in the alternate one; the prompt row not marked
\* yet, or marked by checkForPrompt when the prompt appeared.
SettleScenarios ==
    { Single(p, << "a" >>) : p \in {PS1, PwshPS1, WidePS1(100), WidePS1(101), <<>>} }
    \cup { Wrapped(PS1, << "a" >>, << "b" >>) }

SettleEnvs ==
    { e \in [sc : SettleScenarios, extractor : {"tracker"}, honours : { {} },
             promptReply : {TRUE}, again : {"never"}, history : {0, 1},
             justAttached : {FALSE}, config : {defaults}, bracketedPaste : {TRUE}] :
        e.history = 1 => e.sc.prompt = PS1 }

InitSettle == env \in SettleEnvs /\ Attached

NextSettle ==
    \/ \E p \in RegionPositions(env.sc) : UserMoveCursor(p)
    \/ LineFeed
    \/ CheckForPrompt
    \/ MarkCurrentPrompt
    \/ EnterAlternateScreen
    \/ WriteParsed

SpecSettle == InitSettle /\ [][NextSettle]_vars

\* The tracker as constructed, before attach was called for any id.
Constructed ==
    /\ lines = env.sc.lines
    /\ bufType = "normal"
    /\ cursor = env.sc.end
    /\ inputQueue = <<>>
    /\ sent = <<>>
    /\ tabInput = [t \in Terminals |-> <<>>]
    /\ markers = <<>>
    /\ regions = <<>>
    /\ prompts = [t \in Terminals |-> <<>>]
    /\ currentPrompt = [t \in Terminals |-> NoMarker]
    /\ promptPositions = [t \in Terminals |-> NoPromptPosition]
    /\ pendingChecks = [t \in Terminals |-> FALSE]
    /\ attached = [t \in Terminals |-> NeverAttached]
    /\ captureTimers = [t \in Terminals |-> [attach |-> 0, lineFeed |-> 0]]
    /\ calls = [c \in Calls |-> IdleCall]

\* The sessions: attach, detach and the disposal of any handle, line feeds,
\* settle checks, marks and sweeps for two terminal ids, in any order.
InitSessions ==
    /\ env = [sc |-> Single(PS1, << "a" >>), extractor |-> "tracker", honours |-> {},
              promptReply |-> TRUE, again |-> "never", history |-> 0,
              justAttached |-> FALSE, config |-> defaults, bracketedPaste |-> TRUE]
    /\ Constructed

NextSessions ==
    \/ \E t \in Terminals : SessionAttach(t)
    \/ \E t \in Terminals : SessionDetach(t)
    \/ \E t \in Terminals, h \in 1..MaxHandles : SessionDispose(t, h)
    \/ \E t \in Terminals : SessionLineFeed(t)
    \/ \E t \in Terminals, screen \in Screens : SessionCheckForPrompt(t, screen)
    \/ \E t \in Terminals, screen \in Screens : SessionMark(t, screen)
    \/ \E t \in Terminals : SessionSweep(t)
    \/ \E t \in Terminals, m \in 1..Len(markers) : SessionHostDispose(t, m)

SpecSessions == InitSessions /\ [][NextSessions]_vars

\* The hotkey: one 'open-command-editor' event with one or two tabs
\* attached, and the editor it opens for the modelled tab.
HotkeyEnvs ==
    [sc : { Single(PS1, << "a" >>), Single(PS1, <<>>),
            ContinuedOnce(PS1, << "a" >>, << "b" >>) },
     extractor : {"service"}, honours : { {"^A", "^E"}, {} }, promptReply : {TRUE},
     again : {"never"}, history : {0}, justAttached : {FALSE}, config : {defaults},
     bracketedPaste : {TRUE}]

InitHotkey == env \in HotkeyEnvs /\ Attached

NextHotkey ==
    \/ \E t \in Terminals : TabAttach(t)
    \/ \E t \in Terminals : TabDetach(t)
    \/ \E c \in Calls, alternate \in SUBSET Terminals : Hotkey(c, alternate)
    \/ \E c \in Calls : CheckCursor(c)
    \/ EditorProcess
    \/ EnterAlternateScreen
    \/ \E c \in Calls : OpenEditor(c)
    \/ \E c \in Calls, e \in EditedCommands : SaveEdit(c, e)
    \/ \E c \in Calls : CancelEdit(c)

SpecHotkey == InitHotkey /\ [][NextHotkey]_vars

(***************************************************************************)
(* Properties                                                              *)
(***************************************************************************)

\* The keys call c has handed to sendInput.
keysOf(c) == { i \in 1..Len(sent) : sent[i].call = c }

\* C1: a call made while the buffer is in alternate (full-screen) mode returns
\* none at once, whatever the cursor and the markers are, and hands no key to
\* sendInput.
C1_AlternateScreenReturnsNone ==
    \A c \in Calls :
        (/\ calls[c].pc # "idle"
         /\ calls[c].pre.type = "alternate"
         /\ env.extractor \in Services)
        => /\ calls[c].pc = "done"
           /\ calls[c].result = NoResult
           /\ keysOf(c) = {}

\* A tracker call in alternate mode, the cursor behind typed text and a live
\* marker on record.
C1_Witness ==
    \E c \in Calls :
        /\ calls[c].pc = "done"
        /\ calls[c].pre.type = "alternate"
        /\ env.extractor = "tracker"
        /\ calls[c].pre.cursor.x > 0
        /\ calls[c].pre.currentPrompt[Tab] # NoMarker

\* C2: a later call hands no key to sendInput while an earlier call of the
\* session is still probing.
C2_SecondProbeWaits ==
    \A c \in Calls, d \in Calls :
        (c < d /\ calls[c].pc = "sampling") => keysOf(d) = {}

\* C3: when CursorProbeStrategy.extract has completed after one of its start
\* keys moved the cursor, and the line editor acts on every start and end key
\* and has answered them all, the cursor is where the call found it.
C3_ProbeRestoresCursor ==
    \A c \in Calls :
        (/\ calls[c].pc = "done"
         /\ env.extractor \in {"tracker", "probe"}
         /\ env.again = "never"
         /\ env.honours = StartKeys \cup EndKeys
         /\ calls[c].movedByStart
         /\ inputQueue = <<>>)
        => cursor = calls[c].pre.cursor

\* C4: the tracker in normal mode awaits the probe before anything else; it
\* returns the probe's result, of confidence high, without running the
\* heuristic; only when the probe answered none does it run the heuristic and
\* return what that answers, of confidence medium, or none.
C4_ProbeThenHeuristic ==
    \A c \in Calls :
        /\ (/\ env.extractor = "tracker"
            /\ calls[c].pc = "sampling")
           => /\ calls[c].ran = <<>>
              /\ calls[c].result = NoResult
              /\ calls[c].phase \in {"start", "restore"}
        /\ (/\ env.extractor = "tracker"
            /\ calls[c].pc = "done"
            /\ calls[c].pre.type = "normal")
           => \/ /\ calls[c].ran = <<"probe:found">>
                 /\ calls[c].result # NoResult
                 /\ calls[c].result.confidence = "high"
              \/ /\ Len(calls[c].ran) = 2
                 /\ calls[c].ran[1] = "probe:none"
                 /\ calls[c].result =
                      heuristicExtract(lines, calls[c].context.cursorPosition,
                                       calls[c].context.currentPrompt)
                 /\ calls[c].result # NoResult => calls[c].result.confidence = "medium"
        /\ (/\ env.extractor = "probe"
            /\ calls[c].pc = "done"
            /\ calls[c].result # NoResult)
           => calls[c].result.confidence = "high"

\* A tracker call whose probe sent all its start keys and failed, and whose
\* heuristic then found the command.
C4_Witness ==
    \E c \in Calls :
        /\ env.extractor = "tracker"
        /\ calls[c].pc = "done"
        /\ Cardinality(keysOf(c)) = Len(startMethods)
        /\ calls[c].ran = <<"probe:none", "heuristic:found">>
        /\ calls[c].result.confidence = "medium"

\* C5: a call made with the cursor at column 0 and no prompt on record for
\* the session returns none.
C5_ColumnZeroReturnsNone ==
    \A c \in Calls :
        (/\ calls[c].pc = "done"
         /\ calls[c].pre.type = "normal"
         /\ calls[c].pre.cursor.x = 0
         /\ calls[c].pre.currentPrompt[Tab] = NoMarker
         /\ calls[c].pre.promptPositions[Tab] = NoPromptPosition)
        => calls[c].result = NoResult

\* The first call, made to one of the services in normal mode with the cursor
\* at the end of the typed text and no prompt on record.
FirstCallAtEnd ==
    /\ calls[1].pc = "done"
    /\ env.extractor \in Services
    /\ calls[1].pre.type = "normal"
    /\ calls[1].pre.cursor = env.sc.end
    /\ calls[1].pre.currentPrompt[Tab] = NoMarker
    /\ calls[1].pre.promptPositions[Tab] = NoPromptPosition

\* C6: on a single non-wrapped row of a prompt (glyph and space) followed by
\* non-empty text c, with the cursor at the end, the call returns c as a
\* single-row command of the cursor row.
C6_SingleRowCommand ==
    (/\ FirstCallAtEnd
     /\ env.sc.shape = "single"
     /\ env.sc.prompt # <<>>
     /\ env.sc.cmd # <<>>)
    => /\ calls[1].result # NoResult
       /\ calls[1].result.command = env.sc.cmd
       /\ ~calls[1].result.isMultiLine
       /\ calls[1].result.startLine = calls[1].pre.cursor.y
       /\ calls[1].result.endLine = calls[1].pre.cursor.y

\* C7: with the cursor at the end of a continuation row whose rows above end
\* in a backslash, back to the prompt row, the tracker and the Ctrl+A/Ctrl+E
\* service return a multi-line command from the prompt row to the cursor row:
\* the rows joined by newlines, without the continuation prompt.  Markers on
\* record were taken with the cursor where the typed text starts.
C7_ContinuedCommand ==
    (/\ calls[1].pc = "done"
     /\ calls[1].pre.type = "normal"
     /\ calls[1].pre.cursor = env.sc.end
     /\ env.extractor \in {"tracker", "service"}
     /\ \A m \in 1..Len(calls[1].pre.regions) :
           calls[1].pre.regions[m].commandStartX = env.sc.start.x
     /\ env.sc.shape = "continued"
     /\ env.sc.prompt # <<>>)
    => /\ calls[1].result # NoResult
       /\ calls[1].result.command = env.sc.cmd
       /\ calls[1].result.isMultiLine
       /\ calls[1].result.startLine = 0
       /\ calls[1].result.endLine = calls[1].pre.cursor.y

\* How many newlines a command text holds.
newlines(command) == Cardinality({ i \in 1..Len(command) : command[i] = NL })

\* The rows after the first of a boundary that are not flagged wrapped.
hardRows(b) ==
    { y \in (b.start.y + 1) .. b.end.y : hasLine(lines, y) /\ ~getLine(lines, y).isWrapped }

\* C8: the command cut from a boundary of several rows holds one newline for
\* each row after the first that is not wrapped, and none for a wrapped row.
C8_JoinRule ==
    \A c \in Calls :
        (/\ calls[c].pc = "done"
         /\ calls[c].result # NoResult
         /\ calls[c].pre.cursor = env.sc.end)
        => newlines(calls[c].result.command) = Cardinality(hardRows(calls[c].bounds))

\* C9: a second call right after the first returns the same result and finds
\* the cursor, the markers and the current prompt as the first call found
\* them.
C9_SecondCallSame ==
    (/\ env.again = "after"
     /\ calls[1].pc = "done"
     /\ calls[2].pc = "done")
    => /\ calls[2].result = calls[1].result
       /\ calls[2].pre.cursor = calls[1].pre.cursor
       /\ calls[2].pre.markers = calls[1].pre.markers
       /\ calls[2].pre.prompts = calls[1].pre.prompts
       /\ calls[2].pre.currentPrompt = calls[1].pre.currentPrompt

\* C10: every result comes from a boundary whose start is strictly before its
\* end in (row, column) order; a boundary whose start is not before its end
\* yields none.
C10_ResultFromProperBoundary ==
    \A c \in Calls :
        calls[c].pc = "done"
        => /\ calls[c].result # NoResult
                => /\ calls[c].bounds # NoBoundaries
                   /\ posLess(calls[c].bounds.start, calls[c].bounds.end)
           /\ (/\ calls[c].bounds # NoBoundaries
               /\ ~posLess(calls[c].bounds.start, calls[c].bounds.end))
                => calls[c].result = NoResult

\* The probe strategy found a start that is not before the position it set
\* out from, and returned none.
C10_Witness ==
    \E c \in Calls :
        /\ calls[c].pc = "done"
        /\ env.extractor = "probe"
        /\ calls[c].startPos # NoPos
        /\ calls[c].bounds # NoBoundaries
        /\ ~posLess(calls[c].bounds.start, calls[c].bounds.end)
        /\ calls[c].result = NoResult

\* C11: a result of the heuristic strategy has confidence high when its start
\* was taken from the live marker of the context's prompt, and confidence
\* medium when the start was found by scanning the rows.
C11_MarkerSeededIsHigh ==
    \A c \in Calls :
        (/\ env.extractor = "tracker"
         /\ calls[c].pc = "done"
         /\ calls[c].ran = <<"probe:none", "heuristic:found">>)
        => calls[c].result.confidence =
             IF heuristicUsesMarker(calls[c].context.cursorPosition,
                                    calls[c].context.currentPrompt)
               THEN "high"
             ELSE "medium"

\* C12: once the handle of a session is disposed, the session has no marker
\* set, no current prompt and no prompt position, every marker registered for
\* it is disposed and no check is pending, whatever timers were set before.
C12_DetachLeavesNoState ==
    detached(Tab)
    => /\ prompts[Tab] = <<>>
       /\ currentPrompt[Tab] = NoMarker
       /\ promptPositions[Tab] = NoPromptPosition
       /\ ~pendingChecks[Tab]
       /\ \A m \in 1..Len(markers) : markers[m].isDisposed

\* C13: a call that was made while the session was attached and is awaiting
\* a probe when the session is detached resolves to none and leaves the
\* session without markers, current prompt or prompt position.
C13_InFlightResolvesNone ==
    [][\A c \in Calls :
         (/\ calls[c].pc = "sampling"
          /\ calls[c].pre.attached.entry # 0
          /\ detached(Tab)
          /\ calls'[c].pc = "done")
         => /\ calls'[c].result = NoResult
            /\ Len(markers') = Len(markers)
            /\ prompts' = prompts
            /\ currentPrompt' = currentPrompt
            /\ promptPositions' = promptPositions]_vars

\* C14: the marker set of a session never holds more than MAX_PROMPTS
\* entries; a mark on a row without a live entry, made when the set is full,
\* drops the oldest entry, disposes its marker and appends the new one.
C14_CapacityEvictsOldest ==
    [][\A t \in Terminals :
         /\ Len(prompts'[t]) <= MAX_PROMPTS
         /\ (/\ t = Tab
             /\ Len(prompts[t]) = MAX_PROMPTS
             /\ Len(markers') > Len(markers)
             /\ existingOnRow(prompts[t], cursor.y) = {})
            => /\ prompts'[t] = Tail(prompts[t]) \o << Len(markers') >>
               /\ markers'[Head(prompts[t])].isDisposed
               /\ ~markers'[Len(markers')].isDisposed]_vars

\* The set is full after one more mark than it can hold: the first marker is
\* disposed and gone from the set, the others are live, the last is current.
C14_Witness ==
    /\ Len(markers) = MAX_PROMPTS + 1
    /\ Len(prompts[Tab]) = MAX_PROMPTS
    /\ Head(prompts[Tab]) = 2
    /\ disposedMarkers = {1}
    /\ currentPrompt[Tab] = Len(markers)

\* The live markers of a list.
liveMarkers(list, ms) == { m \in markersOf(list) : ~ms[m].isDisposed }

\* C15: no two live markers of a session's set are on the same row; a mark on
\* a row that has a live entry leaves the set as it is, gives that entry the
\* new command-start column and timestamp, and disposes the marker that was
\* registered for the mark.
C15_OneLiveMarkerPerRow ==
    [][/\ \A t \in Terminals :
            LET live == liveMarkers(prompts'[t], markers')
            IN  Cardinality({ markers'[m].line : m \in live }) = Cardinality(live)
       /\ (/\ Len(markers') > Len(markers)
           /\ existingOnRow(prompts[Tab], cursor.y) # {})
          => LET e == prompts[Tab][SetMin(existingOnRow(prompts[Tab], cursor.y))]
                 new == Len(markers')
             IN  /\ prompts' = prompts
                 /\ regions'[e].commandStartX = cursor.x
                 /\ regions'[e].timestamp = new
                 /\ regions'[e].timestamp > regions[e].timestamp
                 /\ markers'[new].isDisposed
                 /\ markers'[e] = markers[e]]_vars

\* A row was marked twice: the second marker is disposed and the entry of the
\* first, still live, carries the second mark's timestamp and column.
C15_Witness ==
    \E e \in markersOf(prompts[Tab]) :
        /\ ~markers[e].isDisposed
        /\ regions[e].timestamp > e
        /\ markers[regions[e].timestamp].isDisposed
        /\ regions[e].commandStartX = regions[regions[e].timestamp].commandStartX

\* C16: the current prompt of a session is absent, or is an entry of the
\* session's marker set whose marker is not disposed.
C16_CurrentPromptIsLive ==
    \A t \in Terminals :
        \/ currentPrompt[t] = NoMarker
        \/ /\ currentPrompt[t] \in markersOf(prompts[t])
           /\ ~markers[currentPrompt[t]].isDisposed

\* The entry of the session's set with the latest timestamp among those whose
\* marker is not disposed, or none.
mostRecentLive(t) ==
    LET live == liveMarkers(prompts[t], markers)
    IN  IF live = {} THEN NoMarker
        ELSE CHOOSE m \in live :
               \A n \in live : regions[n].timestamp <= regions[m].timestamp

\* C17: getCurrentPrompt returns the most recently marked entry among those
\* whose marker is not disposed, and none only when there is no such entry.
C17_CurrentIsMostRecentLive ==
    \A t \in Terminals : getCurrentPrompt(t) = mostRecentLive(t)

\* C18: when the tracker reads the current prompt for a call and the marker
\* of the current prompt is disposed, the call gets none and the disposed
\* entry is gone from the session's marker set when the read returns.
C18_ReadPrunesDisposed ==
    [][\A c \in Calls :
         (/\ env.extractor = "tracker"
          /\ bufType = "normal"
          /\ calls[c].pc = "idle"
          /\ calls'[c].pc # "idle"
          /\ currentPrompt[Tab] # NoMarker
          /\ markers[currentPrompt[Tab]].isDisposed)
         => /\ calls'[c].context.currentPrompt = NoMarker
            /\ currentPrompt[Tab] \notin markersOf(prompts'[Tab])]_vars

\* C19: at most one check scheduled by a line feed is pending for a session
\* at any time, so that a burst of line feeds is followed by one check.
C19_OneSettleCheckPending ==
    \A t \in Terminals :
        captureTimers[t].lineFeed + (IF pendingChecks[t] THEN 1 ELSE 0) <= 1

\* C20: under the configuration the plugin ships with, applying an edit hands
\* the edited command to sendInput and no carriage return.
C20_SaveSendsNoEnter ==
    \A c \in Calls :
        (calls[c].editor = "saved" /\ env.config = defaults)
        => /\ \E i \in keysOf(c) : sent[i].key = "insert"
           /\ \A i \in keysOf(c) : sent[i].key # "\r"
           /\ \A i \in 1..Len(calls[c].inserted) : calls[c].inserted[i] # "\r"

\* What the line editor holds after it was handed data on an empty line: the
\* text between the bracketed-paste markers, or the data as typed.
heldAfter(data) ==
    IF Len(data) >= 2 /\ data[1] = "ESC[200~" /\ data[Len(data)] = "ESC[201~"
      THEN SubSeq(data, 2, Len(data) - 1)
    ELSE data

\* C21: when the editor was opened and cancelled, the call has handed exactly
\* one insert to sendInput, and the line editor holds the text it held
\* before the editor was opened.
C21_CancelRoundTrip ==
    \A c \in Calls :
        calls[c].editor = "cancelled"
        => /\ Cardinality({ i \in keysOf(c) : sent[i].key = "insert" }) = 1
           /\ heldAfter(calls[c].inserted) = env.sc.cmd

\* The start keys and the end keys call c has handed to sendInput, in order.
startKeysOf(c) ==
    LET ks == SelectSeq(sent, LAMBDA k : k.call = c /\ k.key \in StartKeys)
    IN  [ i \in 1..Len(ks) |-> ks[i].key ]

endKeysOf(c) == { i \in keysOf(c) : sent[i].key \in EndKeys }

\* The order in which the start probe is to try its sequences: Home (CSI H),
\* Ctrl+A, Home-alt (CSI 1~), Home-app (SS3 H).
StartOrder == << "ESC[H", "^A", "ESC[1~", "ESCOH" >>

\* C22: the start probe of CursorProbeStrategy sends its sequences in the
\* order Home, Ctrl+A, Home-alt, Home-app; it sends the next one only in the
\* step in which the attempt of the one before resolves with the cursor read
\* at the origin; once an attempt has resolved elsewhere it sends no further
\* start sequence; and when all four resolved at the origin the probe has
\* failed and no end sequence is ever sent.
C22_StartProbeOrder ==
    [][\A c \in Calls :
         env.extractor \in {"tracker", "probe"}
         => /\ startKeysOf(c)' = SubSeq(StartOrder, 1, Len(startKeysOf(c)'))
            /\ (Len(startKeysOf(c)') > Len(startKeysOf(c)) /\ calls[c].pc # "idle")
                 => /\ calls[c].pc = "sampling" /\ calls[c].phase = "start"
                    /\ getCursorPosition(calls[c]) = calls[c].originalPos
                    /\ calls[c].startPos = NoPos
            /\ calls[c].startPos # NoPos
                 => /\ calls[c].startPos # calls[c].originalPos
                    /\ startKeysOf(c)' = startKeysOf(c)
            /\ (calls'[c].pc = "done" /\ calls'[c].startPos = NoPos)
                 => /\ endKeysOf(c)' = {}
                    /\ calls'[c].ran[1] \in {"probe:none"}
                    /\ calls'[c].originalPos.x # 0 => startKeysOf(c)' = StartOrder]_vars

\* The probe strategy sent Home, which the line editor is not bound to, then
\* Ctrl+A, which moved the cursor, and then went on to the end sequences.
C22_Witness ==
    \E c \in Calls :
        /\ env.extractor = "probe"
        /\ calls[c].pc = "done"
        /\ startKeysOf(c) = << "ESC[H", "^A" >>
        /\ calls[c].startPos = env.sc.start
        /\ endKeysOf(c) # {}

\* checkCursor of the attempt of call c runs in the step.
checked(c) ==
    /\ calls[c].pc = "sampling"
    /\ ~timedOut(calls[c])
    /\ calls'[c].attempt # calls[c].attempt

\* The step resolves the attempt of call c.
resolves(c) ==
    /\ calls[c].pc = "sampling"
    /\ calls'[c].attempt # calls[c].attempt
    /\ calls'[c].pc = "sampling" => calls'[c].attempt.checks = 0

\* How many samples in a row, the one checkCursor is about to take included,
\* have read the same position.
identicalSamples(call) ==
    IF call.attempt.lastPos = getCursorPosition(call)
      THEN call.attempt.stableCount + 2
    ELSE 1

\* C23: checkCursor accepts the position it reads exactly when its sample is
\* the one that completes STABLE_READINGS samples in a row of the same
\* position.
C23_AcceptsAtKthIdenticalSample ==
    [][\A c \in Calls :
         checked(c) => (resolves(c) <=> identicalSamples(calls[c]) = STABLE_READINGS)]_vars

\* CHECK_INTERVAL of the attempt of a call.
intervalOf(call) ==
    IF call.context.caller = "service" THEN serviceCHECK_INTERVAL ELSE CHECK_INTERVAL

\* The step starts an attempt of call c.
begins(c) ==
    /\ calls'[c].pc = "sampling"
    /\ calls'[c].attempt.checks = 0
    /\ calls[c].pc = "sampling" => calls'[c].attempt # calls[c].attempt

\* C24: an attempt hands its sequence to sendInput once, in the step that
\* starts it, and nothing after; it is resolved by checkCursor or by the
\* timeout, never by both, and the timeout resolves it before checkCursor
\* could run PROBE_TIMEOUT after the send, however the cursor moves; the one
\* checkCursor that is still scheduled when the timeout resolves the attempt
\* reads nothing, resolves nothing and schedules nothing.
C24_AttemptLifeCycle ==
    [][\A c \in Calls :
         /\ Cardinality(keysOf(c))' =
              Cardinality(keysOf(c)) + (IF begins(c) THEN 1 ELSE 0)
         /\ calls'[c].pc = "sampling"
              => calls'[c].attempt.checks * intervalOf(calls'[c]) < PROBE_TIMEOUT
         /\ resolves(c)
              => /\ timedOut(calls[c]) <=> calls'[c].lateChecks = calls[c].lateChecks + 1
                 /\ ~timedOut(calls[c])
                      => /\ calls[c].attempt.stableCount + 1 = STABLE_READINGS
                         /\ calls[c].attempt.lastPos = getCursorPosition(calls[c])
                         /\ calls'[c].lateChecks = calls[c].lateChecks
         /\ calls'[c].lateChecks <= 1
         /\ calls'[c].lateChecks < calls[c].lateChecks
              => /\ calls' = [calls EXCEPT ![c].lateChecks = 0]
                 /\ sent' = sent /\ cursor' = cursor]_vars

\* The cursor kept moving until the timeout resolved an attempt of the probe
\* strategy, whose last scheduled check is still to run.
C24_Witness ==
    \E c \in Calls :
        /\ env.extractor = "probe"
        /\ calls[c].lateChecks = 1
        /\ calls[c].pc = "sampling"
        /\ calls[c].method = 2

\* The keys of call c that the line editor has still to act on.
inFlight(c) == { i \in 1..Len(inputQueue) : inputQueue[i].call = c }

\* C25: an attempt resolves to "the cursor did not move" only when the whole
\* PROBE_TIMEOUT has passed with the cursor at the origin, so a call never
\* hands a further sequence to sendInput while the line editor has still to
\* act on an earlier one.
C25_NoMoveOnlyAfterTimeout ==
    [][\A c \in Calls :
         (/\ resolves(c)
          /\ getCursorPosition(calls[c]) = attemptFrom(calls[c]))
         => /\ timedOut(calls[c])
            /\ Cardinality(inFlight(c))' <= 1]_vars

\* C26: with nothing typed after the prompt and the cursor right behind it,
\* the call returns none.
C26_EmptyCommandReturnsNone ==
    \A c \in Calls :
        (/\ calls[c].pc = "done"
         /\ env.sc.cmd = <<>>
         /\ calls[c].pre.cursor = Pos(Len(env.sc.prompt), env.sc.start.y))
        => calls[c].result = NoResult

\* C27: wherever the cursor sits inside the typed command when the call is
\* made, at its start, inside it or at its end, the call returns the whole
\* typed command.
C27_CursorPlaceDoesNotMatter ==
    \A c \in Calls :
        (/\ calls[c].pc = "done"
         /\ calls[c].pre.type = "normal"
         /\ env.sc.cmd # <<>>
         /\ env.promptReply
         /\ env.honours = StartKeys \cup EndKeys
         /\ calls[c].pre.currentPrompt[Tab] = NoMarker
         /\ calls[c].pre.promptPositions[Tab] = NoPromptPosition)
        => /\ calls[c].result # NoResult
           /\ calls[c].result.command = env.sc.cmd

\* C28: the step in which the heuristic strategy runs hands nothing to
\* sendInput and leaves the buffer, the cursor, the markers, the session's
\* marker set and its current prompt as they were.
C28_HeuristicIsPureRead ==
    [][\A c \in Calls :
         (Len(calls[c].ran) < 2 /\ Len(calls'[c].ran) = 2)
         => /\ sent' = sent
            /\ inputQueue' = inputQueue
            /\ lines' = lines /\ bufType' = bufType /\ cursor' = cursor
            /\ markers' = markers /\ regions' = regions
            /\ prompts' = prompts /\ currentPrompt' = currentPrompt]_vars

\* The heuristic has answered a tracker call from the live marker of the
\* session's current prompt, after the probe had sent its keys.
C28_Witness ==
    \E c \in Calls :
        /\ env.extractor = "tracker"
        /\ calls[c].pc = "done"
        /\ Len(calls[c].ran) = 2
        /\ calls[c].result # NoResult
        /\ keysOf(c) # {}
        /\ calls[c].context.currentPrompt # NoMarker
        /\ currentPrompt[Tab] = calls[c].context.currentPrompt
        /\ ~markers[currentPrompt[Tab]].isDisposed

\* The first row met going up from row y that is neither flagged wrapped nor
\* a continuation row; NoPrompt when there is none.
firstPlainRow(buf, y) ==
    LET rows == { r \in 0..y :
                    /\ ~getLine(buf, r).isWrapped
                    /\ ~isContinuationLine(translateToString(getLine(buf, r), 0, NoColumn)) }
    IN  IF rows = {} THEN NoPrompt ELSE SetMax(rows)

\* A tracker call that the heuristic answered by scanning, with no marker.
scanned(c) ==
    /\ env.extractor = "tracker"
    /\ calls[c].pc = "done"
    /\ Len(calls[c].ran) = 2
    /\ calls[c].bounds # NoBoundaries
    /\ ~heuristicUsesMarker(calls[c].context.cursorPosition,
                            calls[c].context.currentPrompt)

\* C29: the scan starts the command at the first row going up from the cursor
\* row that is neither wrapped nor a continuation row: behind the prompt when
\* findPromptEnd matches it, else (a row that looks like output) at column 0
\* of the row below it, the cursor row itself not excepted; so every row
\* strictly between the start row and the cursor row is wrapped or a
\* continuation row.
C29_ScanStartsAtFirstPlainRow ==
    \A c \in Calls :
        LET cp == calls[c].context.cursorPosition
            top == firstPlainRow(lines, cp.y)
            promptEnd == findPromptEnd(translateToString(getLine(lines, top), 0, NoColumn))
        IN  (/\ scanned(c)
             /\ top # NoPrompt
             /\ top >= cp.y - MAX_SCAN_LINES)
            => /\ calls[c].bounds.start =
                    IF promptEnd # NoPrompt THEN Pos(promptEnd, top) ELSE Pos(0, top + 1)
               /\ \A y \in (calls[c].bounds.start.y + 1) .. (cp.y - 1) :
                     \/ getLine(lines, y).isWrapped
                     \/ isContinuationLine(translateToString(getLine(lines, y), 0, NoColumn))

\* C30: a result of the heuristic, seeded by a marker or found by the scan,
\* starts no more than MAX_SCAN_LINES rows above the cursor row, so no row
\* further up is read for it.
C30_HeuristicLookbackBounded ==
    \A c \in Calls :
        (/\ env.extractor = "tracker"
         /\ calls[c].pc = "done"
         /\ Len(calls[c].ran) = 2
         /\ calls[c].bounds # NoBoundaries)
        => /\ calls[c].bounds.start.y >=
                calls[c].context.cursorPosition.y - MAX_SCAN_LINES
           /\ calls[c].result # NoResult
                => calls[c].result.startLine >=
                     calls[c].context.cursorPosition.y - MAX_SCAN_LINES

\* The row a forward scan from row y ends on: the last row that is not blank
\* among row y and the rows after it up to the first row after y that is not
\* flagged wrapped and on which findPromptEnd matches a prompt.
forwardEnd(buf, y) ==
    LET fresh == { r \in (y + 1)..(Len(buf) - 1) :
                     /\ ~getLine(buf, r).isWrapped
                     /\ findPromptEnd(translateToString(getLine(buf, r), 0, NoColumn))
                          # NoPrompt }
        limit == IF fresh = {} THEN Len(buf) ELSE SetMin(fresh)
    IN  SetMax({y} \cup { r \in (y + 1)..(limit - 1) :
                            trim(translateToString(getLine(buf, r), 0, NoColumn)) # <<>> })

\* C31: the region the heuristic cuts ends on the row a forward scan from the
\* cursor row reaches: the rows after the cursor row that are not blank and
\* not a fresh prompt belong to the command, up to the first fresh prompt.
C31_EndFoundByForwardScan ==
    \A c \in Calls :
        (/\ env.extractor = "tracker"
         /\ calls[c].pc = "done"
         /\ Len(calls[c].ran) = 2
         /\ calls[c].bounds # NoBoundaries)
        => /\ calls[c].bounds.end.y = forwardEnd(lines, calls[c].context.cursorPosition.y)
           /\ calls[c].result # NoResult
                => calls[c].result.endLine
                     = forwardEnd(lines, calls[c].context.cursorPosition.y)

\* Whether row y ends with a backslash once trimmed on the right.
endsWithBackslash(buf, y) == endsWith(trimEnd(getLineText(buf, y)), <<"\\">>)

\* The smallest row s of [max(0, r - MAX_SCAN_LINES), r] with every row of
\* [s, r - 1] ending with a backslash.
chainTop(buf, r) ==
    SetMin({ s \in Max(0, r - MAX_SCAN_LINES)..r :
               \A y \in s..(r - 1) : endsWithBackslash(buf, y) })

\* The boundary the claim gives for expandForMultiLine(buf, b).
expandedAsSpecified(buf, b) ==
    LET s == chainTop(buf, b.start.y)
        promptMatch == serviceFindPromptEnd(getLineText(buf, s))
    IN  IF s = b.start.y THEN b
        ELSE Boundaries(Pos(IF promptMatch # NoPrompt THEN promptMatch ELSE 0, s), b.end)

\* The boundary the service had before it expanded it: the probed start and
\* end, or what fallbackLineScan found when Ctrl+A moved nothing.
probedBoundaries(call) ==
    IF call.startPos # NoPos
      THEN Boundaries(call.startPos, call.bounds.end)
    ELSE fallbackLineScan(lines, call.originalPos)

\* C32: expandForMultiLine moves the start of a boundary that starts on row
\* r up to the smallest row s of [max(0, r - 50), r] with every row of
\* [s, r - 1] ending with a backslash, at the column behind the prompt match
\* of row s or at column 0 when it has none; it leaves the end alone, and
\* returns the boundary unchanged when row r - 1 does not end with a
\* backslash.  This for every boundary on the rows of the buffer, and for
\* the boundary of every extraction of the service.
C32_ExpandForMultiLine ==
    /\ \A r \in 0..(Len(lines) - 1) : \A x \in 0..Len(getLineText(lines, r)) :
          LET b == Boundaries(Pos(x, r), Pos(Len(getLineText(lines, r)), r))
          IN  /\ expandForMultiLine(lines, b) = expandedAsSpecified(lines, b)
              /\ expandForMultiLine(lines, b).end = b.end
              /\ (r = 0 \/ ~endsWithBackslash(lines, r - 1))
                    => expandForMultiLine(lines, b) = b
    /\ \A c \in Calls :
          (/\ env.extractor = "service"
           /\ calls[c].pc = "done"
           /\ calls[c].bounds # NoBoundaries)
          => calls[c].bounds = expandedAsSpecified(lines, probedBoundaries(calls[c]))

\* An extraction of the service whose boundary was expanded to its cap: it
\* starts MAX_SCAN_LINES rows above the probed start, under a row that ends
\* with a backslash too.
C32_Witness ==
    \E c \in Calls :
        /\ env.extractor = "service"
        /\ calls[c].pc = "done"
        /\ calls[c].startPos # NoPos
        /\ calls[c].bounds # NoBoundaries
        /\ calls[c].bounds.start.y = calls[c].startPos.y - MAX_SCAN_LINES
        /\ calls[c].bounds.start.y > 0
        /\ endsWithBackslash(lines, calls[c].bounds.start.y - 1)
        /\ calls[c].result # NoResult

\* The settle check of the session fires in this step.
settleCheckFires ==
    /\ pendingChecks[Tab] /\ ~pendingChecks'[Tab]
    /\ attached' = attached

\* The text of the cursor row before the cursor shows a prompt glyph.
glyphBeforeCursor ==
    \E i \in 1..Min(cursor.x, Len(getLine(lines, cursor.y).text)) :
        getLine(lines, cursor.y).text[i] \in servicePromptChars

\* C33: a settle check that creates a marker does so in the normal buffer,
\* with the cursor at column 100 or less, and gives it that column as its
\* command-start column; a check that fires with the cursor past column 100,
\* in the alternate buffer, or on a row with no prompt glyph before the
\* cursor creates no marker and leaves the markers, the list of prompts and
\* the current prompt as they were.
C33_SettleCheckPlausibility ==
    [][ settleCheckFires =>
          /\ Len(markers') > Len(markers)
                => /\ bufType = "normal"
                   /\ cursor.x <= 100
                   /\ Len(markers') = Len(markers) + 1
                   /\ regions'[Len(regions')].commandStartX = cursor.x
                   /\ regions'[Len(regions')].commandStartX <= 100
          /\ (cursor.x > 100 \/ bufType = "alternate" \/ ~glyphBeforeCursor)
                => /\ markers' = markers
                   /\ regions' = regions
                   /\ prompts' = prompts
                   /\ currentPrompt' = currentPrompt ]_vars

\* The settle check has fired at a prompt that ends at column 100 and has
\* marked it: the current prompt carries command-start column 100.
C33_Witness ==
    /\ env.sc.prompt = WidePS1(100)
    /\ currentPrompt[Tab] # NoMarker
    /\ regions[currentPrompt[Tab]].commandStartX = 100
    /\ ~markers[currentPrompt[Tab]].isDisposed
    /\ ~pendingChecks[Tab]

\* markCurrentPrompt registers a marker in this step.
markRegisters ==
    /\ Len(markers') > Len(markers)
    /\ pendingChecks' = pendingChecks

\* C34: once markCurrentPrompt has registered a marker, getCurrentPrompt
\* returns the entry of the cursor row, with the cursor column as its
\* command-start column, also when the row had a live marker already that
\* was not the most recent one.
C34_MarkMakesRowCurrent ==
    [][ markRegisters =>
          LET current == getCurrentPrompt(Tab)'
          IN  /\ current # NoMarker
              /\ markers'[current].line = cursor.y
              /\ regions'[current].commandStartX = cursor.x ]_vars

sessionState(t) ==
    [ prompts |-> [ i \in 1..Len(prompts[t]) |->
                      [id |-> prompts[t][i], marker |-> markers[prompts[t][i]],
                       region |-> regions[prompts[t][i]]] ],
      currentPrompt |-> currentPrompt[t],
      pendingCheck |-> pendingChecks[t] ]

\* C36: a line feed, settle check, mark, sweep, attach, detach or disposal of
\* a handle for session A leaves the marker set, the current prompt and the
\* pending timer of every other session B as they were.
C36_SessionsArePartitioned ==
    [][ \A a \in Terminals :
          SessionNext(a) => \A b \in Terminals \ {a} : sessionState(b)' = sessionState(b)
      ]_vars

\* One session was detached while the other holds a live current prompt and
\* has a check pending.
C36_Witness ==
    \E a \in Terminals, b \in Terminals :
        /\ a # b
        /\ detached(a)
        /\ getCurrentPrompt(b) # NoMarker
        /\ pendingChecks[b]
        /\ listening(b)

\* C37: isAttached(id) is true exactly when listeners for the id are
\* registered, whatever attach, detach and handle.dispose calls were made:
\* the disposal of an earlier handle after the id was attached again leaves
\* the registry entry of the newer attachment in place.
C37_AttachedIffListening ==
    \A t \in Terminals : isAttached(t) <=> listening(t)

\* The tabs that have been handed bytes.
tabsWithInput ==
    { t \in Terminals : IF t = Tab THEN sent # <<>> ELSE tabInput[t] # <<>> }

\* C38: one 'open-command-editor' event starts an extraction, and so hands
\* probe bytes to sendInput, in one tab at most, however many tabs are
\* attached.
C38_HotkeyStartsOneExtraction ==
    Cardinality(tabsWithInput) <= 1

\* C39: the command of every result returned by the tracker, by the probe
\* strategy and by the Ctrl+A/Ctrl+E service is not empty, and the result
\* says isMultiLine exactly when the command holds a line feed.
C39_ResultIsWellFormed ==
    \A c \in Calls :
        (/\ env.extractor \in {"tracker", "probe", "service"}
         /\ calls[c].pc = "done"
         /\ calls[c].result # NoResult)
        => /\ calls[c].result.command # <<>>
           /\ calls[c].result.isMultiLine
                <=> \E i \in 1..Len(calls[c].result.command) :
                      calls[c].result.command[i] = NL

====
